---- MODULE Spec2Model ----
(***************************************************************************)
(* Model of the AI-Video-Generator backend: the persistent-server request  *)
(* handler (backend/main.py) over VideoGenerator                           *)
(* (backend/models/video_generator.py) with its in-memory task table, and  *)
(* the stateless serverless handler (backend/api/index.py).                *)
(* Each request slot is one concurrently handled HTTP request; its pc is   *)
(* the await point the coroutine is suspended at.                          *)
(***************************************************************************)
EXTENDS Integers, Sequences, FiniteSets, TLC

\* ---------------------------------------------------------------- bounds
MaxReq == 2
TickSecs == 120

\* ------------------------------------------------------ program constants
MinPromptLen == 3
TimeoutSecs == 240

\* ------------------------------------------------------------- characters
\* Python str values are sequences of characters. A character is a
\* one-character string when it is printable ASCII other than the backquote,
\* or one of \t \n \r \f, and otherwise the string "U+XXXX" of its code point (four to six
\* upper-case hex digits), e.g. "U+00A0", "U+1E921".

\* the character sequence of a TLA+ string literal
Str(lit) == [i \in 1..Len(lit) |-> SubSeq(lit, i, i)]

\* the printable ASCII characters from code point 32 to 95, and from 97 to 126
AsciiLow == " !\"#$%&'()*+,-./0123456789:;<=>?@ABCDEFGHIJKLMNOPQRSTUVWXYZ[\\]^_"
AsciiHigh == "abcdefghijklmnopqrstuvwxyz{|}~"

HexUpper == "0123456789ABCDEF"
HexLower == "0123456789abcdef"

HexDigitVal(d) == CHOOSE i \in 0..15 : SubSeq(HexUpper, i + 1, i + 1) = d

RECURSIVE HexValue(_)
HexValue(h) == IF Len(h) = 0 THEN 0
               ELSE 16 * HexValue(SubSeq(h, 1, Len(h) - 1))
                      + HexDigitVal(SubSeq(h, Len(h), Len(h)))

\* ord(c) of the one-character strings
AsciiCode ==
  [c \in {SubSeq(AsciiLow, i, i) : i \in 1..64} \cup {SubSeq(AsciiHigh, i, i) : i \in 1..30}
          \cup {"\t", "\n", "\f", "\r"} |->
     CASE c = "\t" -> 9
     []   c = "\n" -> 10
     []   c = "\f" -> 12
     []   c = "\r" -> 13
     []   \E i \in 1..64 : SubSeq(AsciiLow, i, i) = c ->
            31 + (CHOOSE i \in 1..64 : SubSeq(AsciiLow, i, i) = c)
     []   OTHER -> 96 + (CHOOSE i \in 1..30 : SubSeq(AsciiHigh, i, i) = c)]

\* ord(c)
CodePoint(c) == IF Len(c) > 1 THEN HexValue(SubSeq(c, 3, Len(c))) ELSE AsciiCode[c]

InRanges(n, rs) == \E i \in 1..Len(rs) : rs[i][1] <= n /\ n <= rs[i][2]

\* code points c with not chr(c).isprintable(), as inclusive ranges
NonPrintableRanges == <<
  <<0, 31>>, <<127, 160>>, <<173, 173>>, <<888, 889>>, <<896, 899>>, <<907, 907>>,
  <<909, 909>>, <<930, 930>>, <<1328, 1328>>, <<1367, 1368>>, <<1419, 1420>>, <<1424, 1424>>,
  <<1480, 1487>>, <<1515, 1518>>, <<1525, 1541>>, <<1564, 1564>>, <<1757, 1757>>, <<1806, 1807>>,
  <<1867, 1868>>, <<1970, 1983>>, <<2043, 2044>>, <<2094, 2095>>, <<2111, 2111>>, <<2140, 2141>>,
  <<2143, 2143>>, <<2155, 2159>>, <<2191, 2199>>, <<2274, 2274>>, <<2436, 2436>>, <<2445, 2446>>,
  <<2449, 2450>>, <<2473, 2473>>, <<2481, 2481>>, <<2483, 2485>>, <<2490, 2491>>, <<2501, 2502>>,
  <<2505, 2506>>, <<2511, 2518>>, <<2520, 2523>>, <<2526, 2526>>, <<2532, 2533>>, <<2559, 2560>>,
  <<2564, 2564>>, <<2571, 2574>>, <<2577, 2578>>, <<2601, 2601>>, <<2609, 2609>>, <<2612, 2612>>,
  <<2615, 2615>>, <<2618, 2619>>, <<2621, 2621>>, <<2627, 2630>>, <<2633, 2634>>, <<2638, 2640>>,
  <<2642, 2648>>, <<2653, 2653>>, <<2655, 2661>>, <<2679, 2688>>, <<2692, 2692>>, <<2702, 2702>>,
  <<2706, 2706>>, <<2729, 2729>>, <<2737, 2737>>, <<2740, 2740>>, <<2746, 2747>>, <<2758, 2758>>,
  <<2762, 2762>>, <<2766, 2767>>, <<2769, 2783>>, <<2788, 2789>>, <<2802, 2808>>, <<2816, 2816>>,
  <<2820, 2820>>, <<2829, 2830>>, <<2833, 2834>>, <<2857, 2857>>, <<2865, 2865>>, <<2868, 2868>>,
  <<2874, 2875>>, <<2885, 2886>>, <<2889, 2890>>, <<2894, 2900>>, <<2904, 2907>>, <<2910, 2910>>,
  <<2916, 2917>>, <<2936, 2945>>, <<2948, 2948>>, <<2955, 2957>>, <<2961, 2961>>, <<2966, 2968>>,
  <<2971, 2971>>, <<2973, 2973>>, <<2976, 2978>>, <<2981, 2983>>, <<2987, 2989>>, <<3002, 3005>>,
  <<3011, 3013>>, <<3017, 3017>>, <<3022, 3023>>, <<3025, 3030>>, <<3032, 3045>>, <<3067, 3071>>,
  <<3085, 3085>>, <<3089, 3089>>, <<3113, 3113>>, <<3130, 3131>>, <<3141, 3141>>, <<3145, 3145>>,
  <<3150, 3156>>, <<3159, 3159>>, <<3163, 3164>>, <<3166, 3167>>, <<3172, 3173>>, <<3184, 3190>>,
  <<3213, 3213>>, <<3217, 3217>>, <<3241, 3241>>, <<3252, 3252>>, <<3258, 3259>>, <<3269, 3269>>,
  <<3273, 3273>>, <<3278, 3284>>, <<3287, 3292>>, <<3295, 3295>>, <<3300, 3301>>, <<3312, 3312>>,
  <<3315, 3327>>, <<3341, 3341>>, <<3345, 3345>>, <<3397, 3397>>, <<3401, 3401>>, <<3408, 3411>>,
  <<3428, 3429>>, <<3456, 3456>>, <<3460, 3460>>, <<3479, 3481>>, <<3506, 3506>>, <<3516, 3516>>,
  <<3518, 3519>>, <<3527, 3529>>, <<3531, 3534>>, <<3541, 3541>>, <<3543, 3543>>, <<3552, 3557>>,
  <<3568, 3569>>, <<3573, 3584>>, <<3643, 3646>>, <<3676, 3712>>, <<3715, 3715>>, <<3717, 3717>>,
  <<3723, 3723>>, <<3748, 3748>>, <<3750, 3750>>, <<3774, 3775>>, <<3781, 3781>>, <<3783, 3783>>,
  <<3790, 3791>>, <<3802, 3803>>, <<3808, 3839>>, <<3912, 3912>>, <<3949, 3952>>, <<3992, 3992>>,
  <<4029, 4029>>, <<4045, 4045>>, <<4059, 4095>>, <<4294, 4294>>, <<4296, 4300>>, <<4302, 4303>>,
  <<4681, 4681>>, <<4686, 4687>>, <<4695, 4695>>, <<4697, 4697>>, <<4702, 4703>>, <<4745, 4745>>,
  <<4750, 4751>>, <<4785, 4785>>, <<4790, 4791>>, <<4799, 4799>>, <<4801, 4801>>, <<4806, 4807>>,
  <<4823, 4823>>, <<4881, 4881>>, <<4886, 4887>>, <<4955, 4956>>, <<4989, 4991>>, <<5018, 5023>>,
  <<5110, 5111>>, <<5118, 5119>>, <<5760, 5760>>, <<5789, 5791>>, <<5881, 5887>>, <<5910, 5918>>,
  <<5943, 5951>>, <<5972, 5983>>, <<5997, 5997>>, <<6001, 6001>>, <<6004, 6015>>, <<6110, 6111>>,
  <<6122, 6127>>, <<6138, 6143>>, <<6158, 6158>>, <<6170, 6175>>, <<6265, 6271>>, <<6315, 6319>>,
  <<6390, 6399>>, <<6431, 6431>>, <<6444, 6447>>, <<6460, 6463>>, <<6465, 6467>>, <<6510, 6511>>,
  <<6517, 6527>>, <<6572, 6575>>, <<6602, 6607>>, <<6619, 6621>>, <<6684, 6685>>, <<6751, 6751>>,
  <<6781, 6782>>, <<6794, 6799>>, <<6810, 6815>>, <<6830, 6831>>, <<6863, 6911>>, <<6989, 6991>>,
  <<7039, 7039>>, <<7156, 7163>>, <<7224, 7226>>, <<7242, 7244>>, <<7305, 7311>>, <<7355, 7356>>,
  <<7368, 7375>>, <<7419, 7423>>, <<7958, 7959>>, <<7966, 7967>>, <<8006, 8007>>, <<8014, 8015>>,
  <<8024, 8024>>, <<8026, 8026>>, <<8028, 8028>>, <<8030, 8030>>, <<8062, 8063>>, <<8117, 8117>>,
  <<8133, 8133>>, <<8148, 8149>>, <<8156, 8156>>, <<8176, 8177>>, <<8181, 8181>>, <<8191, 8207>>,
  <<8232, 8239>>, <<8287, 8303>>, <<8306, 8307>>, <<8335, 8335>>, <<8349, 8351>>, <<8385, 8399>>,
  <<8433, 8447>>, <<8588, 8591>>, <<9255, 9279>>, <<9291, 9311>>, <<11124, 11125>>, <<11158, 11158>>,
  <<11508, 11512>>, <<11558, 11558>>, <<11560, 11564>>, <<11566, 11567>>, <<11624, 11630>>, <<11633, 11646>>,
  <<11671, 11679>>, <<11687, 11687>>, <<11695, 11695>>, <<11703, 11703>>, <<11711, 11711>>, <<11719, 11719>>,
  <<11727, 11727>>, <<11735, 11735>>, <<11743, 11743>>, <<11870, 11903>>, <<11930, 11930>>, <<12020, 12031>>,
  <<12246, 12271>>, <<12284, 12288>>, <<12352, 12352>>, <<12439, 12440>>, <<12544, 12548>>, <<12592, 12592>>,
  <<12687, 12687>>, <<12772, 12783>>, <<12831, 12831>>, <<42125, 42127>>, <<42183, 42191>>, <<42540, 42559>>,
  <<42744, 42751>>, <<42955, 42959>>, <<42962, 42962>>, <<42964, 42964>>, <<42970, 42993>>, <<43053, 43055>>,
  <<43066, 43071>>, <<43128, 43135>>, <<43206, 43213>>, <<43226, 43231>>, <<43348, 43358>>, <<43389, 43391>>,
  <<43470, 43470>>, <<43482, 43485>>, <<43519, 43519>>, <<43575, 43583>>, <<43598, 43599>>, <<43610, 43611>>,
  <<43715, 43738>>, <<43767, 43776>>, <<43783, 43784>>, <<43791, 43792>>, <<43799, 43807>>, <<43815, 43815>>,
  <<43823, 43823>>, <<43884, 43887>>, <<44014, 44015>>, <<44026, 44031>>, <<55204, 55215>>, <<55239, 55242>>,
  <<55292, 63743>>, <<64110, 64111>>, <<64218, 64255>>, <<64263, 64274>>, <<64280, 64284>>, <<64311, 64311>>,
  <<64317, 64317>>, <<64319, 64319>>, <<64322, 64322>>, <<64325, 64325>>, <<64451, 64466>>, <<64912, 64913>>,
  <<64968, 64974>>, <<64976, 65007>>, <<65050, 65055>>, <<65107, 65107>>, <<65127, 65127>>, <<65132, 65135>>,
  <<65141, 65141>>, <<65277, 65280>>, <<65471, 65473>>, <<65480, 65481>>, <<65488, 65489>>, <<65496, 65497>>,
  <<65501, 65503>>, <<65511, 65511>>, <<65519, 65531>>, <<65534, 65535>>, <<65548, 65548>>, <<65575, 65575>>,
  <<65595, 65595>>, <<65598, 65598>>, <<65614, 65615>>, <<65630, 65663>>, <<65787, 65791>>, <<65795, 65798>>,
  <<65844, 65846>>, <<65935, 65935>>, <<65949, 65951>>, <<65953, 65999>>, <<66046, 66175>>, <<66205, 66207>>,
  <<66257, 66271>>, <<66300, 66303>>, <<66340, 66348>>, <<66379, 66383>>, <<66427, 66431>>, <<66462, 66462>>,
  <<66500, 66503>>, <<66518, 66559>>, <<66718, 66719>>, <<66730, 66735>>, <<66772, 66775>>, <<66812, 66815>>,
  <<66856, 66863>>, <<66916, 66926>>, <<66939, 66939>>, <<66955, 66955>>, <<66963, 66963>>, <<66966, 66966>>,
  <<66978, 66978>>, <<66994, 66994>>, <<67002, 67002>>, <<67005, 67071>>, <<67383, 67391>>, <<67414, 67423>>,
  <<67432, 67455>>, <<67462, 67462>>, <<67505, 67505>>, <<67515, 67583>>, <<67590, 67591>>, <<67593, 67593>>,
  <<67638, 67638>>, <<67641, 67643>>, <<67645, 67646>>, <<67670, 67670>>, <<67743, 67750>>, <<67760, 67807>>,
  <<67827, 67827>>, <<67830, 67834>>, <<67868, 67870>>, <<67898, 67902>>, <<67904, 67967>>, <<68024, 68027>>,
  <<68048, 68049>>, <<68100, 68100>>, <<68103, 68107>>, <<68116, 68116>>, <<68120, 68120>>, <<68150, 68151>>,
  <<68155, 68158>>, <<68169, 68175>>, <<68185, 68191>>, <<68256, 68287>>, <<68327, 68330>>, <<68343, 68351>>,
  <<68406, 68408>>, <<68438, 68439>>, <<68467, 68471>>, <<68498, 68504>>, <<68509, 68520>>, <<68528, 68607>>,
  <<68681, 68735>>, <<68787, 68799>>, <<68851, 68857>>, <<68904, 68911>>, <<68922, 69215>>, <<69247, 69247>>,
  <<69290, 69290>>, <<69294, 69295>>, <<69298, 69375>>, <<69416, 69423>>, <<69466, 69487>>, <<69514, 69551>>,
  <<69580, 69599>>, <<69623, 69631>>, <<69710, 69713>>, <<69750, 69758>>, <<69821, 69821>>, <<69827, 69839>>,
  <<69865, 69871>>, <<69882, 69887>>, <<69941, 69941>>, <<69960, 69967>>, <<70007, 70015>>, <<70112, 70112>>,
  <<70133, 70143>>, <<70162, 70162>>, <<70207, 70271>>, <<70279, 70279>>, <<70281, 70281>>, <<70286, 70286>>,
  <<70302, 70302>>, <<70314, 70319>>, <<70379, 70383>>, <<70394, 70399>>, <<70404, 70404>>, <<70413, 70414>>,
  <<70417, 70418>>, <<70441, 70441>>, <<70449, 70449>>, <<70452, 70452>>, <<70458, 70458>>, <<70469, 70470>>,
  <<70473, 70474>>, <<70478, 70479>>, <<70481, 70486>>, <<70488, 70492>>, <<70500, 70501>>, <<70509, 70511>>,
  <<70517, 70655>>, <<70748, 70748>>, <<70754, 70783>>, <<70856, 70863>>, <<70874, 71039>>, <<71094, 71095>>,
  <<71134, 71167>>, <<71237, 71247>>, <<71258, 71263>>, <<71277, 71295>>, <<71354, 71359>>, <<71370, 71423>>,
  <<71451, 71452>>, <<71468, 71471>>, <<71495, 71679>>, <<71740, 71839>>, <<71923, 71934>>, <<71943, 71944>>,
  <<71946, 71947>>, <<71956, 71956>>, <<71959, 71959>>, <<71990, 71990>>, <<71993, 71994>>, <<72007, 72015>>,
  <<72026, 72095>>, <<72104, 72105>>, <<72152, 72153>>, <<72165, 72191>>, <<72264, 72271>>, <<72355, 72367>>,
  <<72441, 72703>>, <<72713, 72713>>, <<72759, 72759>>, <<72774, 72783>>, <<72813, 72815>>, <<72848, 72849>>,
  <<72872, 72872>>, <<72887, 72959>>, <<72967, 72967>>, <<72970, 72970>>, <<73015, 73017>>, <<73019, 73019>>,
  <<73022, 73022>>, <<73032, 73039>>, <<73050, 73055>>, <<73062, 73062>>, <<73065, 73065>>, <<73103, 73103>>,
  <<73106, 73106>>, <<73113, 73119>>, <<73130, 73439>>, <<73465, 73647>>, <<73649, 73663>>, <<73714, 73726>>,
  <<74650, 74751>>, <<74863, 74863>>, <<74869, 74879>>, <<75076, 77711>>, <<77811, 77823>>, <<78895, 82943>>,
  <<83527, 92159>>, <<92729, 92735>>, <<92767, 92767>>, <<92778, 92781>>, <<92863, 92863>>, <<92874, 92879>>,
  <<92910, 92911>>, <<92918, 92927>>, <<92998, 93007>>, <<93018, 93018>>, <<93026, 93026>>, <<93048, 93052>>,
  <<93072, 93759>>, <<93851, 93951>>, <<94027, 94030>>, <<94088, 94094>>, <<94112, 94175>>, <<94181, 94191>>,
  <<94194, 94207>>, <<100344, 100351>>, <<101590, 101631>>, <<101641, 110575>>, <<110580, 110580>>, <<110588, 110588>>,
  <<110591, 110591>>, <<110883, 110927>>, <<110931, 110947>>, <<110952, 110959>>, <<111356, 113663>>, <<113771, 113775>>,
  <<113789, 113791>>, <<113801, 113807>>, <<113818, 113819>>, <<113824, 118527>>, <<118574, 118575>>, <<118599, 118607>>,
  <<118724, 118783>>, <<119030, 119039>>, <<119079, 119080>>, <<119155, 119162>>, <<119275, 119295>>, <<119366, 119519>>,
  <<119540, 119551>>, <<119639, 119647>>, <<119673, 119807>>, <<119893, 119893>>, <<119965, 119965>>, <<119968, 119969>>,
  <<119971, 119972>>, <<119975, 119976>>, <<119981, 119981>>, <<119994, 119994>>, <<119996, 119996>>, <<120004, 120004>>,
  <<120070, 120070>>, <<120075, 120076>>, <<120085, 120085>>, <<120093, 120093>>, <<120122, 120122>>, <<120127, 120127>>,
  <<120133, 120133>>, <<120135, 120137>>, <<120145, 120145>>, <<120486, 120487>>, <<120780, 120781>>, <<121484, 121498>>,
  <<121504, 121504>>, <<121520, 122623>>, <<122655, 122879>>, <<122887, 122887>>, <<122905, 122906>>, <<122914, 122914>>,
  <<122917, 122917>>, <<122923, 123135>>, <<123181, 123183>>, <<123198, 123199>>, <<123210, 123213>>, <<123216, 123535>>,
  <<123567, 123583>>, <<123642, 123646>>, <<123648, 124895>>, <<124903, 124903>>, <<124908, 124908>>, <<124911, 124911>>,
  <<124927, 124927>>, <<125125, 125126>>, <<125143, 125183>>, <<125260, 125263>>, <<125274, 125277>>, <<125280, 126064>>,
  <<126133, 126208>>, <<126270, 126463>>, <<126468, 126468>>, <<126496, 126496>>, <<126499, 126499>>, <<126501, 126502>>,
  <<126504, 126504>>, <<126515, 126515>>, <<126520, 126520>>, <<126522, 126522>>, <<126524, 126529>>, <<126531, 126534>>,
  <<126536, 126536>>, <<126538, 126538>>, <<126540, 126540>>, <<126544, 126544>>, <<126547, 126547>>, <<126549, 126550>>,
  <<126552, 126552>>, <<126554, 126554>>, <<126556, 126556>>, <<126558, 126558>>, <<126560, 126560>>, <<126563, 126563>>,
  <<126565, 126566>>, <<126571, 126571>>, <<126579, 126579>>, <<126584, 126584>>, <<126589, 126589>>, <<126591, 126591>>,
  <<126602, 126602>>, <<126620, 126624>>, <<126628, 126628>>, <<126634, 126634>>, <<126652, 126703>>, <<126706, 126975>>,
  <<127020, 127023>>, <<127124, 127135>>, <<127151, 127152>>, <<127168, 127168>>, <<127184, 127184>>, <<127222, 127231>>,
  <<127406, 127461>>, <<127491, 127503>>, <<127548, 127551>>, <<127561, 127567>>, <<127570, 127583>>, <<127590, 127743>>,
  <<128728, 128732>>, <<128749, 128751>>, <<128765, 128767>>, <<128884, 128895>>, <<128985, 128991>>, <<129004, 129007>>,
  <<129009, 129023>>, <<129036, 129039>>, <<129096, 129103>>, <<129114, 129119>>, <<129160, 129167>>, <<129198, 129199>>,
  <<129202, 129279>>, <<129620, 129631>>, <<129646, 129647>>, <<129653, 129655>>, <<129661, 129663>>, <<129671, 129679>>,
  <<129709, 129711>>, <<129723, 129727>>, <<129734, 129743>>, <<129754, 129759>>, <<129768, 129775>>, <<129783, 129791>>,
  <<129939, 129939>>, <<129995, 130031>>, <<130042, 131071>>, <<173792, 173823>>, <<177977, 177983>>, <<178206, 178207>>,
  <<183970, 183983>>, <<191457, 194559>>, <<195102, 196607>>, <<201547, 917759>>, <<918000, 1114111>> >>

\* code points of the case-ignorable characters (Unicode Case_Ignorable)
CaseIgnorableRanges == <<
  <<39, 39>>, <<46, 46>>, <<58, 58>>, <<94, 94>>, <<96, 96>>, <<168, 168>>,
  <<173, 173>>, <<175, 175>>, <<180, 180>>, <<183, 184>>, <<688, 879>>, <<884, 885>>,
  <<890, 890>>, <<900, 901>>, <<903, 903>>, <<1155, 1161>>, <<1369, 1369>>, <<1375, 1375>>,
  <<1425, 1469>>, <<1471, 1471>>, <<1473, 1474>>, <<1476, 1477>>, <<1479, 1479>>, <<1524, 1524>>,
  <<1536, 1541>>, <<1552, 1562>>, <<1564, 1564>>, <<1600, 1600>>, <<1611, 1631>>, <<1648, 1648>>,
  <<1750, 1757>>, <<1759, 1768>>, <<1770, 1773>>, <<1807, 1807>>, <<1809, 1809>>, <<1840, 1866>>,
  <<1958, 1968>>, <<2027, 2037>>, <<2042, 2042>>, <<2045, 2045>>, <<2070, 2093>>, <<2137, 2139>>,
  <<2184, 2184>>, <<2192, 2193>>, <<2200, 2207>>, <<2249, 2306>>, <<2362, 2362>>, <<2364, 2364>>,
  <<2369, 2376>>, <<2381, 2381>>, <<2385, 2391>>, <<2402, 2403>>, <<2417, 2417>>, <<2433, 2433>>,
  <<2492, 2492>>, <<2497, 2500>>, <<2509, 2509>>, <<2530, 2531>>, <<2558, 2558>>, <<2561, 2562>>,
  <<2620, 2620>>, <<2625, 2626>>, <<2631, 2632>>, <<2635, 2637>>, <<2641, 2641>>, <<2672, 2673>>,
  <<2677, 2677>>, <<2689, 2690>>, <<2748, 2748>>, <<2753, 2757>>, <<2759, 2760>>, <<2765, 2765>>,
  <<2786, 2787>>, <<2810, 2815>>, <<2817, 2817>>, <<2876, 2876>>, <<2879, 2879>>, <<2881, 2884>>,
  <<2893, 2893>>, <<2901, 2902>>, <<2914, 2915>>, <<2946, 2946>>, <<3008, 3008>>, <<3021, 3021>>,
  <<3072, 3072>>, <<3076, 3076>>, <<3132, 3132>>, <<3134, 3136>>, <<3142, 3144>>, <<3146, 3149>>,
  <<3157, 3158>>, <<3170, 3171>>, <<3201, 3201>>, <<3260, 3260>>, <<3263, 3263>>, <<3270, 3270>>,
  <<3276, 3277>>, <<3298, 3299>>, <<3328, 3329>>, <<3387, 3388>>, <<3393, 3396>>, <<3405, 3405>>,
  <<3426, 3427>>, <<3457, 3457>>, <<3530, 3530>>, <<3538, 3540>>, <<3542, 3542>>, <<3633, 3633>>,
  <<3636, 3642>>, <<3654, 3662>>, <<3761, 3761>>, <<3764, 3772>>, <<3782, 3782>>, <<3784, 3789>>,
  <<3864, 3865>>, <<3893, 3893>>, <<3895, 3895>>, <<3897, 3897>>, <<3953, 3966>>, <<3968, 3972>>,
  <<3974, 3975>>, <<3981, 3991>>, <<3993, 4028>>, <<4038, 4038>>, <<4141, 4144>>, <<4146, 4151>>,
  <<4153, 4154>>, <<4157, 4158>>, <<4184, 4185>>, <<4190, 4192>>, <<4209, 4212>>, <<4226, 4226>>,
  <<4229, 4230>>, <<4237, 4237>>, <<4253, 4253>>, <<4348, 4348>>, <<4957, 4959>>, <<5906, 5908>>,
  <<5938, 5939>>, <<5970, 5971>>, <<6002, 6003>>, <<6068, 6069>>, <<6071, 6077>>, <<6086, 6086>>,
  <<6089, 6099>>, <<6103, 6103>>, <<6109, 6109>>, <<6155, 6159>>, <<6211, 6211>>, <<6277, 6278>>,
  <<6313, 6313>>, <<6432, 6434>>, <<6439, 6440>>, <<6450, 6450>>, <<6457, 6459>>, <<6679, 6680>>,
  <<6683, 6683>>, <<6742, 6742>>, <<6744, 6750>>, <<6752, 6752>>, <<6754, 6754>>, <<6757, 6764>>,
  <<6771, 6780>>, <<6783, 6783>>, <<6823, 6823>>, <<6832, 6862>>, <<6912, 6915>>, <<6964, 6964>>,
  <<6966, 6970>>, <<6972, 6972>>, <<6978, 6978>>, <<7019, 7027>>, <<7040, 7041>>, <<7074, 7077>>,
  <<7080, 7081>>, <<7083, 7085>>, <<7142, 7142>>, <<7144, 7145>>, <<7149, 7149>>, <<7151, 7153>>,
  <<7212, 7219>>, <<7222, 7223>>, <<7288, 7293>>, <<7376, 7378>>, <<7380, 7392>>, <<7394, 7400>>,
  <<7405, 7405>>, <<7412, 7412>>, <<7416, 7417>>, <<7468, 7530>>, <<7544, 7544>>, <<7579, 7679>>,
  <<8125, 8125>>, <<8127, 8129>>, <<8141, 8143>>, <<8157, 8159>>, <<8173, 8175>>, <<8189, 8190>>,
  <<8203, 8207>>, <<8216, 8217>>, <<8228, 8228>>, <<8231, 8231>>, <<8234, 8238>>, <<8288, 8292>>,
  <<8294, 8303>>, <<8305, 8305>>, <<8319, 8319>>, <<8336, 8348>>, <<8400, 8432>>, <<11388, 11389>>,
  <<11503, 11505>>, <<11631, 11631>>, <<11647, 11647>>, <<11744, 11775>>, <<11823, 11823>>, <<12293, 12293>>,
  <<12330, 12333>>, <<12337, 12341>>, <<12347, 12347>>, <<12441, 12446>>, <<12540, 12542>>, <<40981, 40981>>,
  <<42232, 42237>>, <<42508, 42508>>, <<42607, 42610>>, <<42612, 42621>>, <<42623, 42623>>, <<42652, 42655>>,
  <<42736, 42737>>, <<42752, 42785>>, <<42864, 42864>>, <<42888, 42890>>, <<42994, 42996>>, <<43000, 43001>>,
  <<43010, 43010>>, <<43014, 43014>>, <<43019, 43019>>, <<43045, 43046>>, <<43052, 43052>>, <<43204, 43205>>,
  <<43232, 43249>>, <<43263, 43263>>, <<43302, 43309>>, <<43335, 43345>>, <<43392, 43394>>, <<43443, 43443>>,
  <<43446, 43449>>, <<43452, 43453>>, <<43471, 43471>>, <<43493, 43494>>, <<43561, 43566>>, <<43569, 43570>>,
  <<43573, 43574>>, <<43587, 43587>>, <<43596, 43596>>, <<43632, 43632>>, <<43644, 43644>>, <<43696, 43696>>,
  <<43698, 43700>>, <<43703, 43704>>, <<43710, 43711>>, <<43713, 43713>>, <<43741, 43741>>, <<43756, 43757>>,
  <<43763, 43764>>, <<43766, 43766>>, <<43867, 43871>>, <<43881, 43883>>, <<44005, 44005>>, <<44008, 44008>>,
  <<44013, 44013>>, <<64286, 64286>>, <<64434, 64450>>, <<65024, 65039>>, <<65043, 65043>>, <<65056, 65071>>,
  <<65106, 65106>>, <<65109, 65109>>, <<65279, 65279>>, <<65287, 65287>>, <<65294, 65294>>, <<65306, 65306>>,
  <<65342, 65342>>, <<65344, 65344>>, <<65392, 65392>>, <<65438, 65439>>, <<65507, 65507>>, <<65529, 65531>>,
  <<66045, 66045>>, <<66272, 66272>>, <<66422, 66426>>, <<67456, 67461>>, <<67463, 67504>>, <<67506, 67514>>,
  <<68097, 68099>>, <<68101, 68102>>, <<68108, 68111>>, <<68152, 68154>>, <<68159, 68159>>, <<68325, 68326>>,
  <<68900, 68903>>, <<69291, 69292>>, <<69446, 69456>>, <<69506, 69509>>, <<69633, 69633>>, <<69688, 69702>>,
  <<69744, 69744>>, <<69747, 69748>>, <<69759, 69761>>, <<69811, 69814>>, <<69817, 69818>>, <<69821, 69821>>,
  <<69826, 69826>>, <<69837, 69837>>, <<69888, 69890>>, <<69927, 69931>>, <<69933, 69940>>, <<70003, 70003>>,
  <<70016, 70017>>, <<70070, 70078>>, <<70089, 70092>>, <<70095, 70095>>, <<70191, 70193>>, <<70196, 70196>>,
  <<70198, 70199>>, <<70206, 70206>>, <<70367, 70367>>, <<70371, 70378>>, <<70400, 70401>>, <<70459, 70460>>,
  <<70464, 70464>>, <<70502, 70508>>, <<70512, 70516>>, <<70712, 70719>>, <<70722, 70724>>, <<70726, 70726>>,
  <<70750, 70750>>, <<70835, 70840>>, <<70842, 70842>>, <<70847, 70848>>, <<70850, 70851>>, <<71090, 71093>>,
  <<71100, 71101>>, <<71103, 71104>>, <<71132, 71133>>, <<71219, 71226>>, <<71229, 71229>>, <<71231, 71232>>,
  <<71339, 71339>>, <<71341, 71341>>, <<71344, 71349>>, <<71351, 71351>>, <<71453, 71455>>, <<71458, 71461>>,
  <<71463, 71467>>, <<71727, 71735>>, <<71737, 71738>>, <<71995, 71996>>, <<71998, 71998>>, <<72003, 72003>>,
  <<72148, 72151>>, <<72154, 72155>>, <<72160, 72160>>, <<72193, 72202>>, <<72243, 72248>>, <<72251, 72254>>,
  <<72263, 72263>>, <<72273, 72278>>, <<72281, 72283>>, <<72330, 72342>>, <<72344, 72345>>, <<72752, 72758>>,
  <<72760, 72765>>, <<72767, 72767>>, <<72850, 72871>>, <<72874, 72880>>, <<72882, 72883>>, <<72885, 72886>>,
  <<73009, 73014>>, <<73018, 73018>>, <<73020, 73021>>, <<73023, 73029>>, <<73031, 73031>>, <<73104, 73105>>,
  <<73109, 73109>>, <<73111, 73111>>, <<73459, 73460>>, <<78896, 78904>>, <<92912, 92916>>, <<92976, 92982>>,
  <<92992, 92995>>, <<94031, 94031>>, <<94095, 94111>>, <<94176, 94177>>, <<94179, 94180>>, <<110576, 110579>>,
  <<110581, 110587>>, <<110589, 110590>>, <<113821, 113822>>, <<113824, 113827>>, <<118528, 118573>>, <<118576, 118598>>,
  <<119143, 119145>>, <<119155, 119170>>, <<119173, 119179>>, <<119210, 119213>>, <<119362, 119364>>, <<121344, 121398>>,
  <<121403, 121452>>, <<121461, 121461>>, <<121476, 121476>>, <<121499, 121503>>, <<121505, 121519>>, <<122880, 122886>>,
  <<122888, 122904>>, <<122907, 122913>>, <<122915, 122916>>, <<122918, 122922>>, <<123184, 123197>>, <<123566, 123566>>,
  <<123628, 123631>>, <<125136, 125142>>, <<125252, 125259>>, <<127995, 127999>>, <<917505, 917505>>, <<917536, 917631>>,
  <<917760, 917999>> >>

\* code points of the cased characters that are not case-ignorable
CasedRanges == <<
  <<65, 90>>, <<97, 122>>, <<170, 170>>, <<181, 181>>, <<186, 186>>, <<192, 214>>,
  <<216, 246>>, <<248, 442>>, <<444, 447>>, <<452, 659>>, <<661, 687>>, <<880, 883>>,
  <<886, 887>>, <<891, 893>>, <<895, 895>>, <<902, 902>>, <<904, 906>>, <<908, 908>>,
  <<910, 929>>, <<931, 1013>>, <<1015, 1153>>, <<1162, 1327>>, <<1329, 1366>>, <<1376, 1416>>,
  <<4256, 4293>>, <<4295, 4295>>, <<4301, 4301>>, <<4304, 4346>>, <<4349, 4351>>, <<5024, 5109>>,
  <<5112, 5117>>, <<7296, 7304>>, <<7312, 7354>>, <<7357, 7359>>, <<7424, 7467>>, <<7531, 7543>>,
  <<7545, 7578>>, <<7680, 7957>>, <<7960, 7965>>, <<7968, 8005>>, <<8008, 8013>>, <<8016, 8023>>,
  <<8025, 8025>>, <<8027, 8027>>, <<8029, 8029>>, <<8031, 8061>>, <<8064, 8116>>, <<8118, 8124>>,
  <<8126, 8126>>, <<8130, 8132>>, <<8134, 8140>>, <<8144, 8147>>, <<8150, 8155>>, <<8160, 8172>>,
  <<8178, 8180>>, <<8182, 8188>>, <<8450, 8450>>, <<8455, 8455>>, <<8458, 8467>>, <<8469, 8469>>,
  <<8473, 8477>>, <<8484, 8484>>, <<8486, 8486>>, <<8488, 8488>>, <<8490, 8493>>, <<8495, 8500>>,
  <<8505, 8505>>, <<8508, 8511>>, <<8517, 8521>>, <<8526, 8526>>, <<8544, 8575>>, <<8579, 8580>>,
  <<9398, 9449>>, <<11264, 11387>>, <<11390, 11492>>, <<11499, 11502>>, <<11506, 11507>>, <<11520, 11557>>,
  <<11559, 11559>>, <<11565, 11565>>, <<42560, 42605>>, <<42624, 42651>>, <<42786, 42863>>, <<42865, 42887>>,
  <<42891, 42894>>, <<42896, 42954>>, <<42960, 42961>>, <<42963, 42963>>, <<42965, 42969>>, <<42997, 42998>>,
  <<43002, 43002>>, <<43824, 43866>>, <<43872, 43880>>, <<43888, 43967>>, <<64256, 64262>>, <<64275, 64279>>,
  <<65313, 65338>>, <<65345, 65370>>, <<66560, 66639>>, <<66736, 66771>>, <<66776, 66811>>, <<66928, 66938>>,
  <<66940, 66954>>, <<66956, 66962>>, <<66964, 66965>>, <<66967, 66977>>, <<66979, 66993>>, <<66995, 67001>>,
  <<67003, 67004>>, <<68736, 68786>>, <<68800, 68850>>, <<71840, 71903>>, <<93760, 93823>>, <<119808, 119892>>,
  <<119894, 119964>>, <<119966, 119967>>, <<119970, 119970>>, <<119973, 119974>>, <<119977, 119980>>, <<119982, 119993>>,
  <<119995, 119995>>, <<119997, 120003>>, <<120005, 120069>>, <<120071, 120074>>, <<120077, 120084>>, <<120086, 120092>>,
  <<120094, 120121>>, <<120123, 120126>>, <<120128, 120132>>, <<120134, 120134>>, <<120138, 120144>>, <<120146, 120485>>,
  <<120488, 120512>>, <<120514, 120538>>, <<120540, 120570>>, <<120572, 120596>>, <<120598, 120628>>, <<120630, 120654>>,
  <<120656, 120686>>, <<120688, 120712>>, <<120714, 120744>>, <<120746, 120770>>, <<120772, 120779>>, <<122624, 122633>>,
  <<122635, 122654>>, <<125184, 125251>>, <<127280, 127305>>, <<127312, 127337>>, <<127344, 127369>> >>

\* every character c with c.lower() # c, and c.lower() (full case mapping;
\* U+03A3 maps to U+03C3 except at the end of a word, see Lower)
LowerPairs == {
  <<"A", <<"a">>>>,
  <<"B", <<"b">>>>,
  <<"C", <<"c">>>>,
  <<"D", <<"d">>>>,
  <<"E", <<"e">>>>,
  <<"F", <<"f">>>>,
  <<"G", <<"g">>>>,
  <<"H", <<"h">>>>,
  <<"I", <<"i">>>>,
  <<"J", <<"j">>>>,
  <<"K", <<"k">>>>,
  <<"L", <<"l">>>>,
  <<"M", <<"m">>>>,
  <<"N", <<"n">>>>,
  <<"O", <<"o">>>>,
  <<"P", <<"p">>>>,
  <<"Q", <<"q">>>>,
  <<"R", <<"r">>>>,
  <<"S", <<"s">>>>,
  <<"T", <<"t">>>>,
  <<"U", <<"u">>>>,
  <<"V", <<"v">>>>,
  <<"W", <<"w">>>>,
  <<"X", <<"x">>>>,
  <<"Y", <<"y">>>>,
  <<"Z", <<"z">>>>,
  <<"U+00C0", <<"U+00E0">>>>,
  <<"U+00C1", <<"U+00E1">>>>,
  <<"U+00C2", <<"U+00E2">>>>,
  <<"U+00C3", <<"U+00E3">>>>,
  <<"U+00C4", <<"U+00E4">>>>,
  <<"U+00C5", <<"U+00E5">>>>,
  <<"U+00C6", <<"U+00E6">>>>,
  <<"U+00C7", <<"U+00E7">>>>,
  <<"U+00C8", <<"U+00E8">>>>,
  <<"U+00C9", <<"U+00E9">>>>,
  <<"U+00CA", <<"U+00EA">>>>,
  <<"U+00CB", <<"U+00EB">>>>,
  <<"U+00CC", <<"U+00EC">>>>,
  <<"U+00CD", <<"U+00ED">>>>,
  <<"U+00CE", <<"U+00EE">>>>,
  <<"U+00CF", <<"U+00EF">>>>,
  <<"U+00D0", <<"U+00F0">>>>,
  <<"U+00D1", <<"U+00F1">>>>,
  <<"U+00D2", <<"U+00F2">>>>,
  <<"U+00D3", <<"U+00F3">>>>,
  <<"U+00D4", <<"U+00F4">>>>,
  <<"U+00D5", <<"U+00F5">>>>,
  <<"U+00D6", <<"U+00F6">>>>,
  <<"U+00D8", <<"U+00F8">>>>,
  <<"U+00D9", <<"U+00F9">>>>,
  <<"U+00DA", <<"U+00FA">>>>,
  <<"U+00DB", <<"U+00FB">>>>,
  <<"U+00DC", <<"U+00FC">>>>,
  <<"U+00DD", <<"U+00FD">>>>,
  <<"U+00DE", <<"U+00FE">>>>,
  <<"U+0100", <<"U+0101">>>>,
  <<"U+0102", <<"U+0103">>>>,
  <<"U+0104", <<"U+0105">>>>,
  <<"U+0106", <<"U+0107">>>>,
  <<"U+0108", <<"U+0109">>>>,
  <<"U+010A", <<"U+010B">>>>,
  <<"U+010C", <<"U+010D">>>>,
  <<"U+010E", <<"U+010F">>>>,
  <<"U+0110", <<"U+0111">>>>,
  <<"U+0112", <<"U+0113">>>>,
  <<"U+0114", <<"U+0115">>>>,
  <<"U+0116", <<"U+0117">>>>,
  <<"U+0118", <<"U+0119">>>>,
  <<"U+011A", <<"U+011B">>>>,
  <<"U+011C", <<"U+011D">>>>,
  <<"U+011E", <<"U+011F">>>>,
  <<"U+0120", <<"U+0121">>>>,
  <<"U+0122", <<"U+0123">>>>,
  <<"U+0124", <<"U+0125">>>>,
  <<"U+0126", <<"U+0127">>>>,
  <<"U+0128", <<"U+0129">>>>,
  <<"U+012A", <<"U+012B">>>>,
  <<"U+012C", <<"U+012D">>>>,
  <<"U+012E", <<"U+012F">>>>,
  <<"U+0130", <<"i", "U+0307">>>>,
  <<"U+0132", <<"U+0133">>>>,
  <<"U+0134", <<"U+0135">>>>,
  <<"U+0136", <<"U+0137">>>>,
  <<"U+0139", <<"U+013A">>>>,
  <<"U+013B", <<"U+013C">>>>,
  <<"U+013D", <<"U+013E">>>>,
  <<"U+013F", <<"U+0140">>>>,
  <<"U+0141", <<"U+0142">>>>,
  <<"U+0143", <<"U+0144">>>>,
  <<"U+0145", <<"U+0146">>>>,
  <<"U+0147", <<"U+0148">>>>,
  <<"U+014A", <<"U+014B">>>>,
  <<"U+014C", <<"U+014D">>>>,
  <<"U+014E", <<"U+014F">>>>,
  <<"U+0150", <<"U+0151">>>>,
  <<"U+0152", <<"U+0153">>>>,
  <<"U+0154", <<"U+0155">>>>,
  <<"U+0156", <<"U+0157">>>>,
  <<"U+0158", <<"U+0159">>>>,
  <<"U+015A", <<"U+015B">>>>,
  <<"U+015C", <<"U+015D">>>>,
  <<"U+015E", <<"U+015F">>>>,
  <<"U+0160", <<"U+0161">>>>,
  <<"U+0162", <<"U+0163">>>>,
  <<"U+0164", <<"U+0165">>>>,
  <<"U+0166", <<"U+0167">>>>,
  <<"U+0168", <<"U+0169">>>>,
  <<"U+016A", <<"U+016B">>>>,
  <<"U+016C", <<"U+016D">>>>,
  <<"U+016E", <<"U+016F">>>>,
  <<"U+0170", <<"U+0171">>>>,
  <<"U+0172", <<"U+0173">>>>,
  <<"U+0174", <<"U+0175">>>>,
  <<"U+0176", <<"U+0177">>>>,
  <<"U+0178", <<"U+00FF">>>>,
  <<"U+0179", <<"U+017A">>>>,
  <<"U+017B", <<"U+017C">>>>,
  <<"U+017D", <<"U+017E">>>>,
  <<"U+0181", <<"U+0253">>>>,
  <<"U+0182", <<"U+0183">>>>,
  <<"U+0184", <<"U+0185">>>>,
  <<"U+0186", <<"U+0254">>>>,
  <<"U+0187", <<"U+0188">>>>,
  <<"U+0189", <<"U+0256">>>>,
  <<"U+018A", <<"U+0257">>>>,
  <<"U+018B", <<"U+018C">>>>,
  <<"U+018E", <<"U+01DD">>>>,
  <<"U+018F", <<"U+0259">>>>,
  <<"U+0190", <<"U+025B">>>>,
  <<"U+0191", <<"U+0192">>>>,
  <<"U+0193", <<"U+0260">>>>,
  <<"U+0194", <<"U+0263">>>>,
  <<"U+0196", <<"U+0269">>>>,
  <<"U+0197", <<"U+0268">>>>,
  <<"U+0198", <<"U+0199">>>>,
  <<"U+019C", <<"U+026F">>>>,
  <<"U+019D", <<"U+0272">>>>,
  <<"U+019F", <<"U+0275">>>>,
  <<"U+01A0", <<"U+01A1">>>>,
  <<"U+01A2", <<"U+01A3">>>>,
  <<"U+01A4", <<"U+01A5">>>>,
  <<"U+01A6", <<"U+0280">>>>,
  <<"U+01A7", <<"U+01A8">>>>,
  <<"U+01A9", <<"U+0283">>>>,
  <<"U+01AC", <<"U+01AD">>>>,
  <<"U+01AE", <<"U+0288">>>>,
  <<"U+01AF", <<"U+01B0">>>>,
  <<"U+01B1", <<"U+028A">>>>,
  <<"U+01B2", <<"U+028B">>>>,
  <<"U+01B3", <<"U+01B4">>>>,
  <<"U+01B5", <<"U+01B6">>>>,
  <<"U+01B7", <<"U+0292">>>>,
  <<"U+01B8", <<"U+01B9">>>>,
  <<"U+01BC", <<"U+01BD">>>>,
  <<"U+01C4", <<"U+01C6">>>>,
  <<"U+01C5", <<"U+01C6">>>>,
  <<"U+01C7", <<"U+01C9">>>>,
  <<"U+01C8", <<"U+01C9">>>>,
  <<"U+01CA", <<"U+01CC">>>>,
  <<"U+01CB", <<"U+01CC">>>>,
  <<"U+01CD", <<"U+01CE">>>>,
  <<"U+01CF", <<"U+01D0">>>>,
  <<"U+01D1", <<"U+01D2">>>>,
  <<"U+01D3", <<"U+01D4">>>>,
  <<"U+01D5", <<"U+01D6">>>>,
  <<"U+01D7", <<"U+01D8">>>>,
  <<"U+01D9", <<"U+01DA">>>>,
  <<"U+01DB", <<"U+01DC">>>>,
  <<"U+01DE", <<"U+01DF">>>>,
  <<"U+01E0", <<"U+01E1">>>>,
  <<"U+01E2", <<"U+01E3">>>>,
  <<"U+01E4", <<"U+01E5">>>>,
  <<"U+01E6", <<"U+01E7">>>>,
  <<"U+01E8", <<"U+01E9">>>>,
  <<"U+01EA", <<"U+01EB">>>>,
  <<"U+01EC", <<"U+01ED">>>>,
  <<"U+01EE", <<"U+01EF">>>>,
  <<"U+01F1", <<"U+01F3">>>>,
  <<"U+01F2", <<"U+01F3">>>>,
  <<"U+01F4", <<"U+01F5">>>>,
  <<"U+01F6", <<"U+0195">>>>,
  <<"U+01F7", <<"U+01BF">>>>,
  <<"U+01F8", <<"U+01F9">>>>,
  <<"U+01FA", <<"U+01FB">>>>,
  <<"U+01FC", <<"U+01FD">>>>,
  <<"U+01FE", <<"U+01FF">>>>,
  <<"U+0200", <<"U+0201">>>>,
  <<"U+0202", <<"U+0203">>>>,
  <<"U+0204", <<"U+0205">>>>,
  <<"U+0206", <<"U+0207">>>>,
  <<"U+0208", <<"U+0209">>>>,
  <<"U+020A", <<"U+020B">>>>,
  <<"U+020C", <<"U+020D">>>>,
  <<"U+020E", <<"U+020F">>>>,
  <<"U+0210", <<"U+0211">>>>,
  <<"U+0212", <<"U+0213">>>>,
  <<"U+0214", <<"U+0215">>>>,
  <<"U+0216", <<"U+0217">>>>,
  <<"U+0218", <<"U+0219">>>>,
  <<"U+021A", <<"U+021B">>>>,
  <<"U+021C", <<"U+021D">>>>,
  <<"U+021E", <<"U+021F">>>>,
  <<"U+0220", <<"U+019E">>>>,
  <<"U+0222", <<"U+0223">>>>,
  <<"U+0224", <<"U+0225">>>>,
  <<"U+0226", <<"U+0227">>>>,
  <<"U+0228", <<"U+0229">>>>,
  <<"U+022A", <<"U+022B">>>>,
  <<"U+022C", <<"U+022D">>>>,
  <<"U+022E", <<"U+022F">>>>,
  <<"U+0230", <<"U+0231">>>>,
  <<"U+0232", <<"U+0233">>>>,
  <<"U+023A", <<"U+2C65">>>>,
  <<"U+023B", <<"U+023C">>>>,
  <<"U+023D", <<"U+019A">>>>,
  <<"U+023E", <<"U+2C66">>>>,
  <<"U+0241", <<"U+0242">>>>,
  <<"U+0243", <<"U+0180">>>>,
  <<"U+0244", <<"U+0289">>>>,
  <<"U+0245", <<"U+028C">>>>,
  <<"U+0246", <<"U+0247">>>>,
  <<"U+0248", <<"U+0249">>>>,
  <<"U+024A", <<"U+024B">>>>,
  <<"U+024C", <<"U+024D">>>>,
  <<"U+024E", <<"U+024F">>>>,
  <<"U+0370", <<"U+0371">>>>,
  <<"U+0372", <<"U+0373">>>>,
  <<"U+0376", <<"U+0377">>>>,
  <<"U+037F", <<"U+03F3">>>>,
  <<"U+0386", <<"U+03AC">>>>,
  <<"U+0388", <<"U+03AD">>>>,
  <<"U+0389", <<"U+03AE">>>>,
  <<"U+038A", <<"U+03AF">>>>,
  <<"U+038C", <<"U+03CC">>>>,
  <<"U+038E", <<"U+03CD">>>>,
  <<"U+038F", <<"U+03CE">>>>,
  <<"U+0391", <<"U+03B1">>>>,
  <<"U+0392", <<"U+03B2">>>>,
  <<"U+0393", <<"U+03B3">>>>,
  <<"U+0394", <<"U+03B4">>>>,
  <<"U+0395", <<"U+03B5">>>>,
  <<"U+0396", <<"U+03B6">>>>,
  <<"U+0397", <<"U+03B7">>>>,
  <<"U+0398", <<"U+03B8">>>>,
  <<"U+0399", <<"U+03B9">>>>,
  <<"U+039A", <<"U+03BA">>>>,
  <<"U+039B", <<"U+03BB">>>>,
  <<"U+039C", <<"U+03BC">>>>,
  <<"U+039D", <<"U+03BD">>>>,
  <<"U+039E", <<"U+03BE">>>>,
  <<"U+039F", <<"U+03BF">>>>,
  <<"U+03A0", <<"U+03C0">>>>,
  <<"U+03A1", <<"U+03C1">>>>,
  <<"U+03A3", <<"U+03C3">>>>,
  <<"U+03A4", <<"U+03C4">>>>,
  <<"U+03A5", <<"U+03C5">>>>,
  <<"U+03A6", <<"U+03C6">>>>,
  <<"U+03A7", <<"U+03C7">>>>,
  <<"U+03A8", <<"U+03C8">>>>,
  <<"U+03A9", <<"U+03C9">>>>,
  <<"U+03AA", <<"U+03CA">>>>,
  <<"U+03AB", <<"U+03CB">>>>,
  <<"U+03CF", <<"U+03D7">>>>,
  <<"U+03D8", <<"U+03D9">>>>,
  <<"U+03DA", <<"U+03DB">>>>,
  <<"U+03DC", <<"U+03DD">>>>,
  <<"U+03DE", <<"U+03DF">>>>,
  <<"U+03E0", <<"U+03E1">>>>,
  <<"U+03E2", <<"U+03E3">>>>,
  <<"U+03E4", <<"U+03E5">>>>,
  <<"U+03E6", <<"U+03E7">>>>,
  <<"U+03E8", <<"U+03E9">>>>,
  <<"U+03EA", <<"U+03EB">>>>,
  <<"U+03EC", <<"U+03ED">>>>,
  <<"U+03EE", <<"U+03EF">>>>,
  <<"U+03F4", <<"U+03B8">>>>,
  <<"U+03F7", <<"U+03F8">>>>,
  <<"U+03F9", <<"U+03F2">>>>,
  <<"U+03FA", <<"U+03FB">>>>,
  <<"U+03FD", <<"U+037B">>>>,
  <<"U+03FE", <<"U+037C">>>>,
  <<"U+03FF", <<"U+037D">>>>,
  <<"U+0400", <<"U+0450">>>>,
  <<"U+0401", <<"U+0451">>>>,
  <<"U+0402", <<"U+0452">>>>,
  <<"U+0403", <<"U+0453">>>>,
  <<"U+0404", <<"U+0454">>>>,
  <<"U+0405", <<"U+0455">>>>,
  <<"U+0406", <<"U+0456">>>>,
  <<"U+0407", <<"U+0457">>>>,
  <<"U+0408", <<"U+0458">>>>,
  <<"U+0409", <<"U+0459">>>>,
  <<"U+040A", <<"U+045A">>>>,
  <<"U+040B", <<"U+045B">>>>,
  <<"U+040C", <<"U+045C">>>>,
  <<"U+040D", <<"U+045D">>>>,
  <<"U+040E", <<"U+045E">>>>,
  <<"U+040F", <<"U+045F">>>>,
  <<"U+0410", <<"U+0430">>>>,
  <<"U+0411", <<"U+0431">>>>,
  <<"U+0412", <<"U+0432">>>>,
  <<"U+0413", <<"U+0433">>>>,
  <<"U+0414", <<"U+0434">>>>,
  <<"U+0415", <<"U+0435">>>>,
  <<"U+0416", <<"U+0436">>>>,
  <<"U+0417", <<"U+0437">>>>,
  <<"U+0418", <<"U+0438">>>>,
  <<"U+0419", <<"U+0439">>>>,
  <<"U+041A", <<"U+043A">>>>,
  <<"U+041B", <<"U+043B">>>>,
  <<"U+041C", <<"U+043C">>>>,
  <<"U+041D", <<"U+043D">>>>,
  <<"U+041E", <<"U+043E">>>>,
  <<"U+041F", <<"U+043F">>>>,
  <<"U+0420", <<"U+0440">>>>,
  <<"U+0421", <<"U+0441">>>>,
  <<"U+0422", <<"U+0442">>>>,
  <<"U+0423", <<"U+0443">>>>,
  <<"U+0424", <<"U+0444">>>>,
  <<"U+0425", <<"U+0445">>>>,
  <<"U+0426", <<"U+0446">>>>,
  <<"U+0427", <<"U+0447">>>>,
  <<"U+0428", <<"U+0448">>>>,
  <<"U+0429", <<"U+0449">>>>,
  <<"U+042A", <<"U+044A">>>>,
  <<"U+042B", <<"U+044B">>>>,
  <<"U+042C", <<"U+044C">>>>,
  <<"U+042D", <<"U+044D">>>>,
  <<"U+042E", <<"U+044E">>>>,
  <<"U+042F", <<"U+044F">>>>,
  <<"U+0460", <<"U+0461">>>>,
  <<"U+0462", <<"U+0463">>>>,
  <<"U+0464", <<"U+0465">>>>,
  <<"U+0466", <<"U+0467">>>>,
  <<"U+0468", <<"U+0469">>>>,
  <<"U+046A", <<"U+046B">>>>,
  <<"U+046C", <<"U+046D">>>>,
  <<"U+046E", <<"U+046F">>>>,
  <<"U+0470", <<"U+0471">>>>,
  <<"U+0472", <<"U+0473">>>>,
  <<"U+0474", <<"U+0475">>>>,
  <<"U+0476", <<"U+0477">>>>,
  <<"U+0478", <<"U+0479">>>>,
  <<"U+047A", <<"U+047B">>>>,
  <<"U+047C", <<"U+047D">>>>,
  <<"U+047E", <<"U+047F">>>>,
  <<"U+0480", <<"U+0481">>>>,
  <<"U+048A", <<"U+048B">>>>,
  <<"U+048C", <<"U+048D">>>>,
  <<"U+048E", <<"U+048F">>>>,
  <<"U+0490", <<"U+0491">>>>,
  <<"U+0492", <<"U+0493">>>>,
  <<"U+0494", <<"U+0495">>>>,
  <<"U+0496", <<"U+0497">>>>,
  <<"U+0498", <<"U+0499">>>>,
  <<"U+049A", <<"U+049B">>>>,
  <<"U+049C", <<"U+049D">>>>,
  <<"U+049E", <<"U+049F">>>>,
  <<"U+04A0", <<"U+04A1">>>>,
  <<"U+04A2", <<"U+04A3">>>>,
  <<"U+04A4", <<"U+04A5">>>>,
  <<"U+04A6", <<"U+04A7">>>>,
  <<"U+04A8", <<"U+04A9">>>>,
  <<"U+04AA", <<"U+04AB">>>>,
  <<"U+04AC", <<"U+04AD">>>>,
  <<"U+04AE", <<"U+04AF">>>>,
  <<"U+04B0", <<"U+04B1">>>>,
  <<"U+04B2", <<"U+04B3">>>>,
  <<"U+04B4", <<"U+04B5">>>>,
  <<"U+04B6", <<"U+04B7">>>>,
  <<"U+04B8", <<"U+04B9">>>>,
  <<"U+04BA", <<"U+04BB">>>>,
  <<"U+04BC", <<"U+04BD">>>>,
  <<"U+04BE", <<"U+04BF">>>>,
  <<"U+04C0", <<"U+04CF">>>>,
  <<"U+04C1", <<"U+04C2">>>>,
  <<"U+04C3", <<"U+04C4">>>>,
  <<"U+04C5", <<"U+04C6">>>>,
  <<"U+04C7", <<"U+04C8">>>>,
  <<"U+04C9", <<"U+04CA">>>>,
  <<"U+04CB", <<"U+04CC">>>>,
  <<"U+04CD", <<"U+04CE">>>>,
  <<"U+04D0", <<"U+04D1">>>>,
  <<"U+04D2", <<"U+04D3">>>>,
  <<"U+04D4", <<"U+04D5">>>>,
  <<"U+04D6", <<"U+04D7">>>>,
  <<"U+04D8", <<"U+04D9">>>>,
  <<"U+04DA", <<"U+04DB">>>>,
  <<"U+04DC", <<"U+04DD">>>>,
  <<"U+04DE", <<"U+04DF">>>>,
  <<"U+04E0", <<"U+04E1">>>>,
  <<"U+04E2", <<"U+04E3">>>>,
  <<"U+04E4", <<"U+04E5">>>>,
  <<"U+04E6", <<"U+04E7">>>>,
  <<"U+04E8", <<"U+04E9">>>>,
  <<"U+04EA", <<"U+04EB">>>>,
  <<"U+04EC", <<"U+04ED">>>>,
  <<"U+04EE", <<"U+04EF">>>>,
  <<"U+04F0", <<"U+04F1">>>>,
  <<"U+04F2", <<"U+04F3">>>>,
  <<"U+04F4", <<"U+04F5">>>>,
  <<"U+04F6", <<"U+04F7">>>>,
  <<"U+04F8", <<"U+04F9">>>>,
  <<"U+04FA", <<"U+04FB">>>>,
  <<"U+04FC", <<"U+04FD">>>>,
  <<"U+04FE", <<"U+04FF">>>>,
  <<"U+0500", <<"U+0501">>>>,
  <<"U+0502", <<"U+0503">>>>,
  <<"U+0504", <<"U+0505">>>>,
  <<"U+0506", <<"U+0507">>>>,
  <<"U+0508", <<"U+0509">>>>,
  <<"U+050A", <<"U+050B">>>>,
  <<"U+050C", <<"U+050D">>>>,
  <<"U+050E", <<"U+050F">>>>,
  <<"U+0510", <<"U+0511">>>>,
  <<"U+0512", <<"U+0513">>>>,
  <<"U+0514", <<"U+0515">>>>,
  <<"U+0516", <<"U+0517">>>>,
  <<"U+0518", <<"U+0519">>>>,
  <<"U+051A", <<"U+051B">>>>,
  <<"U+051C", <<"U+051D">>>>,
  <<"U+051E", <<"U+051F">>>>,
  <<"U+0520", <<"U+0521">>>>,
  <<"U+0522", <<"U+0523">>>>,
  <<"U+0524", <<"U+0525">>>>,
  <<"U+0526", <<"U+0527">>>>,
  <<"U+0528", <<"U+0529">>>>,
  <<"U+052A", <<"U+052B">>>>,
  <<"U+052C", <<"U+052D">>>>,
  <<"U+052E", <<"U+052F">>>>,
  <<"U+0531", <<"U+0561">>>>,
  <<"U+0532", <<"U+0562">>>>,
  <<"U+0533", <<"U+0563">>>>,
  <<"U+0534", <<"U+0564">>>>,
  <<"U+0535", <<"U+0565">>>>,
  <<"U+0536", <<"U+0566">>>>,
  <<"U+0537", <<"U+0567">>>>,
  <<"U+0538", <<"U+0568">>>>,
  <<"U+0539", <<"U+0569">>>>,
  <<"U+053A", <<"U+056A">>>>,
  <<"U+053B", <<"U+056B">>>>,
  <<"U+053C", <<"U+056C">>>>,
  <<"U+053D", <<"U+056D">>>>,
  <<"U+053E", <<"U+056E">>>>,
  <<"U+053F", <<"U+056F">>>>,
  <<"U+0540", <<"U+0570">>>>,
  <<"U+0541", <<"U+0571">>>>,
  <<"U+0542", <<"U+0572">>>>,
  <<"U+0543", <<"U+0573">>>>,
  <<"U+0544", <<"U+0574">>>>,
  <<"U+0545", <<"U+0575">>>>,
  <<"U+0546", <<"U+0576">>>>,
  <<"U+0547", <<"U+0577">>>>,
  <<"U+0548", <<"U+0578">>>>,
  <<"U+0549", <<"U+0579">>>>,
  <<"U+054A", <<"U+057A">>>>,
  <<"U+054B", <<"U+057B">>>>,
  <<"U+054C", <<"U+057C">>>>,
  <<"U+054D", <<"U+057D">>>>,
  <<"U+054E", <<"U+057E">>>>,
  <<"U+054F", <<"U+057F">>>>,
  <<"U+0550", <<"U+0580">>>>,
  <<"U+0551", <<"U+0581">>>>,
  <<"U+0552", <<"U+0582">>>>,
  <<"U+0553", <<"U+0583">>>>,
  <<"U+0554", <<"U+0584">>>>,
  <<"U+0555", <<"U+0585">>>>,
  <<"U+0556", <<"U+0586">>>>,
  <<"U+10A0", <<"U+2D00">>>>,
  <<"U+10A1", <<"U+2D01">>>>,
  <<"U+10A2", <<"U+2D02">>>>,
  <<"U+10A3", <<"U+2D03">>>>,
  <<"U+10A4", <<"U+2D04">>>>,
  <<"U+10A5", <<"U+2D05">>>>,
  <<"U+10A6", <<"U+2D06">>>>,
  <<"U+10A7", <<"U+2D07">>>>,
  <<"U+10A8", <<"U+2D08">>>>,
  <<"U+10A9", <<"U+2D09">>>>,
  <<"U+10AA", <<"U+2D0A">>>>,
  <<"U+10AB", <<"U+2D0B">>>>,
  <<"U+10AC", <<"U+2D0C">>>>,
  <<"U+10AD", <<"U+2D0D">>>>,
  <<"U+10AE", <<"U+2D0E">>>>,
  <<"U+10AF", <<"U+2D0F">>>>,
  <<"U+10B0", <<"U+2D10">>>>,
  <<"U+10B1", <<"U+2D11">>>>,
  <<"U+10B2", <<"U+2D12">>>>,
  <<"U+10B3", <<"U+2D13">>>>,
  <<"U+10B4", <<"U+2D14">>>>,
  <<"U+10B5", <<"U+2D15">>>>,
  <<"U+10B6", <<"U+2D16">>>>,
  <<"U+10B7", <<"U+2D17">>>>,
  <<"U+10B8", <<"U+2D18">>>>,
  <<"U+10B9", <<"U+2D19">>>>,
  <<"U+10BA", <<"U+2D1A">>>>,
  <<"U+10BB", <<"U+2D1B">>>>,
  <<"U+10BC", <<"U+2D1C">>>>,
  <<"U+10BD", <<"U+2D1D">>>>,
  <<"U+10BE", <<"U+2D1E">>>>,
  <<"U+10BF", <<"U+2D1F">>>>,
  <<"U+10C0", <<"U+2D20">>>>,
  <<"U+10C1", <<"U+2D21">>>>,
  <<"U+10C2", <<"U+2D22">>>>,
  <<"U+10C3", <<"U+2D23">>>>,
  <<"U+10C4", <<"U+2D24">>>>,
  <<"U+10C5", <<"U+2D25">>>>,
  <<"U+10C7", <<"U+2D27">>>>,
  <<"U+10CD", <<"U+2D2D">>>>,
  <<"U+13A0", <<"U+AB70">>>>,
  <<"U+13A1", <<"U+AB71">>>>,
  <<"U+13A2", <<"U+AB72">>>>,
  <<"U+13A3", <<"U+AB73">>>>,
  <<"U+13A4", <<"U+AB74">>>>,
  <<"U+13A5", <<"U+AB75">>>>,
  <<"U+13A6", <<"U+AB76">>>>,
  <<"U+13A7", <<"U+AB77">>>>,
  <<"U+13A8", <<"U+AB78">>>>,
  <<"U+13A9", <<"U+AB79">>>>,
  <<"U+13AA", <<"U+AB7A">>>>,
  <<"U+13AB", <<"U+AB7B">>>>,
  <<"U+13AC", <<"U+AB7C">>>>,
  <<"U+13AD", <<"U+AB7D">>>>,
  <<"U+13AE", <<"U+AB7E">>>>,
  <<"U+13AF", <<"U+AB7F">>>>,
  <<"U+13B0", <<"U+AB80">>>>,
  <<"U+13B1", <<"U+AB81">>>>,
  <<"U+13B2", <<"U+AB82">>>>,
  <<"U+13B3", <<"U+AB83">>>>,
  <<"U+13B4", <<"U+AB84">>>>,
  <<"U+13B5", <<"U+AB85">>>>,
  <<"U+13B6", <<"U+AB86">>>>,
  <<"U+13B7", <<"U+AB87">>>>,
  <<"U+13B8", <<"U+AB88">>>>,
  <<"U+13B9", <<"U+AB89">>>>,
  <<"U+13BA", <<"U+AB8A">>>>,
  <<"U+13BB", <<"U+AB8B">>>>,
  <<"U+13BC", <<"U+AB8C">>>>,
  <<"U+13BD", <<"U+AB8D">>>>,
  <<"U+13BE", <<"U+AB8E">>>>,
  <<"U+13BF", <<"U+AB8F">>>>,
  <<"U+13C0", <<"U+AB90">>>>,
  <<"U+13C1", <<"U+AB91">>>>,
  <<"U+13C2", <<"U+AB92">>>>,
  <<"U+13C3", <<"U+AB93">>>>,
  <<"U+13C4", <<"U+AB94">>>>,
  <<"U+13C5", <<"U+AB95">>>>,
  <<"U+13C6", <<"U+AB96">>>>,
  <<"U+13C7", <<"U+AB97">>>>,
  <<"U+13C8", <<"U+AB98">>>>,
  <<"U+13C9", <<"U+AB99">>>>,
  <<"U+13CA", <<"U+AB9A">>>>,
  <<"U+13CB", <<"U+AB9B">>>>,
  <<"U+13CC", <<"U+AB9C">>>>,
  <<"U+13CD", <<"U+AB9D">>>>,
  <<"U+13CE", <<"U+AB9E">>>>,
  <<"U+13CF", <<"U+AB9F">>>>,
  <<"U+13D0", <<"U+ABA0">>>>,
  <<"U+13D1", <<"U+ABA1">>>>,
  <<"U+13D2", <<"U+ABA2">>>>,
  <<"U+13D3", <<"U+ABA3">>>>,
  <<"U+13D4", <<"U+ABA4">>>>,
  <<"U+13D5", <<"U+ABA5">>>>,
  <<"U+13D6", <<"U+ABA6">>>>,
  <<"U+13D7", <<"U+ABA7">>>>,
  <<"U+13D8", <<"U+ABA8">>>>,
  <<"U+13D9", <<"U+ABA9">>>>,
  <<"U+13DA", <<"U+ABAA">>>>,
  <<"U+13DB", <<"U+ABAB">>>>,
  <<"U+13DC", <<"U+ABAC">>>>,
  <<"U+13DD", <<"U+ABAD">>>>,
  <<"U+13DE", <<"U+ABAE">>>>,
  <<"U+13DF", <<"U+ABAF">>>>,
  <<"U+13E0", <<"U+ABB0">>>>,
  <<"U+13E1", <<"U+ABB1">>>>,
  <<"U+13E2", <<"U+ABB2">>>>,
  <<"U+13E3", <<"U+ABB3">>>>,
  <<"U+13E4", <<"U+ABB4">>>>,
  <<"U+13E5", <<"U+ABB5">>>>,
  <<"U+13E6", <<"U+ABB6">>>>,
  <<"U+13E7", <<"U+ABB7">>>>,
  <<"U+13E8", <<"U+ABB8">>>>,
  <<"U+13E9", <<"U+ABB9">>>>,
  <<"U+13EA", <<"U+ABBA">>>>,
  <<"U+13EB", <<"U+ABBB">>>>,
  <<"U+13EC", <<"U+ABBC">>>>,
  <<"U+13ED", <<"U+ABBD">>>>,
  <<"U+13EE", <<"U+ABBE">>>>,
  <<"U+13EF", <<"U+ABBF">>>>,
  <<"U+13F0", <<"U+13F8">>>>,
  <<"U+13F1", <<"U+13F9">>>>,
  <<"U+13F2", <<"U+13FA">>>>,
  <<"U+13F3", <<"U+13FB">>>>,
  <<"U+13F4", <<"U+13FC">>>>,
  <<"U+13F5", <<"U+13FD">>>>,
  <<"U+1C90", <<"U+10D0">>>>,
  <<"U+1C91", <<"U+10D1">>>>,
  <<"U+1C92", <<"U+10D2">>>>,
  <<"U+1C93", <<"U+10D3">>>>,
  <<"U+1C94", <<"U+10D4">>>>,
  <<"U+1C95", <<"U+10D5">>>>,
  <<"U+1C96", <<"U+10D6">>>>,
  <<"U+1C97", <<"U+10D7">>>>,
  <<"U+1C98", <<"U+10D8">>>>,
  <<"U+1C99", <<"U+10D9">>>>,
  <<"U+1C9A", <<"U+10DA">>>>,
  <<"U+1C9B", <<"U+10DB">>>>,
  <<"U+1C9C", <<"U+10DC">>>>,
  <<"U+1C9D", <<"U+10DD">>>>,
  <<"U+1C9E", <<"U+10DE">>>>,
  <<"U+1C9F", <<"U+10DF">>>>,
  <<"U+1CA0", <<"U+10E0">>>>,
  <<"U+1CA1", <<"U+10E1">>>>,
  <<"U+1CA2", <<"U+10E2">>>>,
  <<"U+1CA3", <<"U+10E3">>>>,
  <<"U+1CA4", <<"U+10E4">>>>,
  <<"U+1CA5", <<"U+10E5">>>>,
  <<"U+1CA6", <<"U+10E6">>>>,
  <<"U+1CA7", <<"U+10E7">>>>,
  <<"U+1CA8", <<"U+10E8">>>>,
  <<"U+1CA9", <<"U+10E9">>>>,
  <<"U+1CAA", <<"U+10EA">>>>,
  <<"U+1CAB", <<"U+10EB">>>>,
  <<"U+1CAC", <<"U+10EC">>>>,
  <<"U+1CAD", <<"U+10ED">>>>,
  <<"U+1CAE", <<"U+10EE">>>>,
  <<"U+1CAF", <<"U+10EF">>>>,
  <<"U+1CB0", <<"U+10F0">>>>,
  <<"U+1CB1", <<"U+10F1">>>>,
  <<"U+1CB2", <<"U+10F2">>>>,
  <<"U+1CB3", <<"U+10F3">>>>,
  <<"U+1CB4", <<"U+10F4">>>>,
  <<"U+1CB5", <<"U+10F5">>>>,
  <<"U+1CB6", <<"U+10F6">>>>,
  <<"U+1CB7", <<"U+10F7">>>>,
  <<"U+1CB8", <<"U+10F8">>>>,
  <<"U+1CB9", <<"U+10F9">>>>,
  <<"U+1CBA", <<"U+10FA">>>>,
  <<"U+1CBD", <<"U+10FD">>>>,
  <<"U+1CBE", <<"U+10FE">>>>,
  <<"U+1CBF", <<"U+10FF">>>>,
  <<"U+1E00", <<"U+1E01">>>>,
  <<"U+1E02", <<"U+1E03">>>>,
  <<"U+1E04", <<"U+1E05">>>>,
  <<"U+1E06", <<"U+1E07">>>>,
  <<"U+1E08", <<"U+1E09">>>>,
  <<"U+1E0A", <<"U+1E0B">>>>,
  <<"U+1E0C", <<"U+1E0D">>>>,
  <<"U+1E0E", <<"U+1E0F">>>>,
  <<"U+1E10", <<"U+1E11">>>>,
  <<"U+1E12", <<"U+1E13">>>>,
  <<"U+1E14", <<"U+1E15">>>>,
  <<"U+1E16", <<"U+1E17">>>>,
  <<"U+1E18", <<"U+1E19">>>>,
  <<"U+1E1A", <<"U+1E1B">>>>,
  <<"U+1E1C", <<"U+1E1D">>>>,
  <<"U+1E1E", <<"U+1E1F">>>>,
  <<"U+1E20", <<"U+1E21">>>>,
  <<"U+1E22", <<"U+1E23">>>>,
  <<"U+1E24", <<"U+1E25">>>>,
  <<"U+1E26", <<"U+1E27">>>>,
  <<"U+1E28", <<"U+1E29">>>>,
  <<"U+1E2A", <<"U+1E2B">>>>,
  <<"U+1E2C", <<"U+1E2D">>>>,
  <<"U+1E2E", <<"U+1E2F">>>>,
  <<"U+1E30", <<"U+1E31">>>>,
  <<"U+1E32", <<"U+1E33">>>>,
  <<"U+1E34", <<"U+1E35">>>>,
  <<"U+1E36", <<"U+1E37">>>>,
  <<"U+1E38", <<"U+1E39">>>>,
  <<"U+1E3A", <<"U+1E3B">>>>,
  <<"U+1E3C", <<"U+1E3D">>>>,
  <<"U+1E3E", <<"U+1E3F">>>>,
  <<"U+1E40", <<"U+1E41">>>>,
  <<"U+1E42", <<"U+1E43">>>>,
  <<"U+1E44", <<"U+1E45">>>>,
  <<"U+1E46", <<"U+1E47">>>>,
  <<"U+1E48", <<"U+1E49">>>>,
  <<"U+1E4A", <<"U+1E4B">>>>,
  <<"U+1E4C", <<"U+1E4D">>>>,
  <<"U+1E4E", <<"U+1E4F">>>>,
  <<"U+1E50", <<"U+1E51">>>>,
  <<"U+1E52", <<"U+1E53">>>>,
  <<"U+1E54", <<"U+1E55">>>>,
  <<"U+1E56", <<"U+1E57">>>>,
  <<"U+1E58", <<"U+1E59">>>>,
  <<"U+1E5A", <<"U+1E5B">>>>,
  <<"U+1E5C", <<"U+1E5D">>>>,
  <<"U+1E5E", <<"U+1E5F">>>>,
  <<"U+1E60", <<"U+1E61">>>>,
  <<"U+1E62", <<"U+1E63">>>>,
  <<"U+1E64", <<"U+1E65">>>>,
  <<"U+1E66", <<"U+1E67">>>>,
  <<"U+1E68", <<"U+1E69">>>>,
  <<"U+1E6A", <<"U+1E6B">>>>,
  <<"U+1E6C", <<"U+1E6D">>>>,
  <<"U+1E6E", <<"U+1E6F">>>>,
  <<"U+1E70", <<"U+1E71">>>>,
  <<"U+1E72", <<"U+1E73">>>>,
  <<"U+1E74", <<"U+1E75">>>>,
  <<"U+1E76", <<"U+1E77">>>>,
  <<"U+1E78", <<"U+1E79">>>>,
  <<"U+1E7A", <<"U+1E7B">>>>,
  <<"U+1E7C", <<"U+1E7D">>>>,
  <<"U+1E7E", <<"U+1E7F">>>>,
  <<"U+1E80", <<"U+1E81">>>>,
  <<"U+1E82", <<"U+1E83">>>>,
  <<"U+1E84", <<"U+1E85">>>>,
  <<"U+1E86", <<"U+1E87">>>>,
  <<"U+1E88", <<"U+1E89">>>>,
  <<"U+1E8A", <<"U+1E8B">>>>,
  <<"U+1E8C", <<"U+1E8D">>>>,
  <<"U+1E8E", <<"U+1E8F">>>>,
  <<"U+1E90", <<"U+1E91">>>>,
  <<"U+1E92", <<"U+1E93">>>>,
  <<"U+1E94", <<"U+1E95">>>>,
  <<"U+1E9E", <<"U+00DF">>>>,
  <<"U+1EA0", <<"U+1EA1">>>>,
  <<"U+1EA2", <<"U+1EA3">>>>,
  <<"U+1EA4", <<"U+1EA5">>>>,
  <<"U+1EA6", <<"U+1EA7">>>>,
  <<"U+1EA8", <<"U+1EA9">>>>,
  <<"U+1EAA", <<"U+1EAB">>>>,
  <<"U+1EAC", <<"U+1EAD">>>>,
  <<"U+1EAE", <<"U+1EAF">>>>,
  <<"U+1EB0", <<"U+1EB1">>>>,
  <<"U+1EB2", <<"U+1EB3">>>>,
  <<"U+1EB4", <<"U+1EB5">>>>,
  <<"U+1EB6", <<"U+1EB7">>>>,
  <<"U+1EB8", <<"U+1EB9">>>>,
  <<"U+1EBA", <<"U+1EBB">>>>,
  <<"U+1EBC", <<"U+1EBD">>>>,
  <<"U+1EBE", <<"U+1EBF">>>>,
  <<"U+1EC0", <<"U+1EC1">>>>,
  <<"U+1EC2", <<"U+1EC3">>>>,
  <<"U+1EC4", <<"U+1EC5">>>>,
  <<"U+1EC6", <<"U+1EC7">>>>,
  <<"U+1EC8", <<"U+1EC9">>>>,
  <<"U+1ECA", <<"U+1ECB">>>>,
  <<"U+1ECC", <<"U+1ECD">>>>,
  <<"U+1ECE", <<"U+1ECF">>>>,
  <<"U+1ED0", <<"U+1ED1">>>>,
  <<"U+1ED2", <<"U+1ED3">>>>,
  <<"U+1ED4", <<"U+1ED5">>>>,
  <<"U+1ED6", <<"U+1ED7">>>>,
  <<"U+1ED8", <<"U+1ED9">>>>,
  <<"U+1EDA", <<"U+1EDB">>>>,
  <<"U+1EDC", <<"U+1EDD">>>>,
  <<"U+1EDE", <<"U+1EDF">>>>,
  <<"U+1EE0", <<"U+1EE1">>>>,
  <<"U+1EE2", <<"U+1EE3">>>>,
  <<"U+1EE4", <<"U+1EE5">>>>,
  <<"U+1EE6", <<"U+1EE7">>>>,
  <<"U+1EE8", <<"U+1EE9">>>>,
  <<"U+1EEA", <<"U+1EEB">>>>,
  <<"U+1EEC", <<"U+1EED">>>>,
  <<"U+1EEE", <<"U+1EEF">>>>,
  <<"U+1EF0", <<"U+1EF1">>>>,
  <<"U+1EF2", <<"U+1EF3">>>>,
  <<"U+1EF4", <<"U+1EF5">>>>,
  <<"U+1EF6", <<"U+1EF7">>>>,
  <<"U+1EF8", <<"U+1EF9">>>>,
  <<"U+1EFA", <<"U+1EFB">>>>,
  <<"U+1EFC", <<"U+1EFD">>>>,
  <<"U+1EFE", <<"U+1EFF">>>>,
  <<"U+1F08", <<"U+1F00">>>>,
  <<"U+1F09", <<"U+1F01">>>>,
  <<"U+1F0A", <<"U+1F02">>>>,
  <<"U+1F0B", <<"U+1F03">>>>,
  <<"U+1F0C", <<"U+1F04">>>>,
  <<"U+1F0D", <<"U+1F05">>>>,
  <<"U+1F0E", <<"U+1F06">>>>,
  <<"U+1F0F", <<"U+1F07">>>>,
  <<"U+1F18", <<"U+1F10">>>>,
  <<"U+1F19", <<"U+1F11">>>>,
  <<"U+1F1A", <<"U+1F12">>>>,
  <<"U+1F1B", <<"U+1F13">>>>,
  <<"U+1F1C", <<"U+1F14">>>>,
  <<"U+1F1D", <<"U+1F15">>>>,
  <<"U+1F28", <<"U+1F20">>>>,
  <<"U+1F29", <<"U+1F21">>>>,
  <<"U+1F2A", <<"U+1F22">>>>,
  <<"U+1F2B", <<"U+1F23">>>>,
  <<"U+1F2C", <<"U+1F24">>>>,
  <<"U+1F2D", <<"U+1F25">>>>,
  <<"U+1F2E", <<"U+1F26">>>>,
  <<"U+1F2F", <<"U+1F27">>>>,
  <<"U+1F38", <<"U+1F30">>>>,
  <<"U+1F39", <<"U+1F31">>>>,
  <<"U+1F3A", <<"U+1F32">>>>,
  <<"U+1F3B", <<"U+1F33">>>>,
  <<"U+1F3C", <<"U+1F34">>>>,
  <<"U+1F3D", <<"U+1F35">>>>,
  <<"U+1F3E", <<"U+1F36">>>>,
  <<"U+1F3F", <<"U+1F37">>>>,
  <<"U+1F48", <<"U+1F40">>>>,
  <<"U+1F49", <<"U+1F41">>>>,
  <<"U+1F4A", <<"U+1F42">>>>,
  <<"U+1F4B", <<"U+1F43">>>>,
  <<"U+1F4C", <<"U+1F44">>>>,
  <<"U+1F4D", <<"U+1F45">>>>,
  <<"U+1F59", <<"U+1F51">>>>,
  <<"U+1F5B", <<"U+1F53">>>>,
  <<"U+1F5D", <<"U+1F55">>>>,
  <<"U+1F5F", <<"U+1F57">>>>,
  <<"U+1F68", <<"U+1F60">>>>,
  <<"U+1F69", <<"U+1F61">>>>,
  <<"U+1F6A", <<"U+1F62">>>>,
  <<"U+1F6B", <<"U+1F63">>>>,
  <<"U+1F6C", <<"U+1F64">>>>,
  <<"U+1F6D", <<"U+1F65">>>>,
  <<"U+1F6E", <<"U+1F66">>>>,
  <<"U+1F6F", <<"U+1F67">>>>,
  <<"U+1F88", <<"U+1F80">>>>,
  <<"U+1F89", <<"U+1F81">>>>,
  <<"U+1F8A", <<"U+1F82">>>>,
  <<"U+1F8B", <<"U+1F83">>>>,
  <<"U+1F8C", <<"U+1F84">>>>,
  <<"U+1F8D", <<"U+1F85">>>>,
  <<"U+1F8E", <<"U+1F86">>>>,
  <<"U+1F8F", <<"U+1F87">>>>,
  <<"U+1F98", <<"U+1F90">>>>,
  <<"U+1F99", <<"U+1F91">>>>,
  <<"U+1F9A", <<"U+1F92">>>>,
  <<"U+1F9B", <<"U+1F93">>>>,
  <<"U+1F9C", <<"U+1F94">>>>,
  <<"U+1F9D", <<"U+1F95">>>>,
  <<"U+1F9E", <<"U+1F96">>>>,
  <<"U+1F9F", <<"U+1F97">>>>,
  <<"U+1FA8", <<"U+1FA0">>>>,
  <<"U+1FA9", <<"U+1FA1">>>>,
  <<"U+1FAA", <<"U+1FA2">>>>,
  <<"U+1FAB", <<"U+1FA3">>>>,
  <<"U+1FAC", <<"U+1FA4">>>>,
  <<"U+1FAD", <<"U+1FA5">>>>,
  <<"U+1FAE", <<"U+1FA6">>>>,
  <<"U+1FAF", <<"U+1FA7">>>>,
  <<"U+1FB8", <<"U+1FB0">>>>,
  <<"U+1FB9", <<"U+1FB1">>>>,
  <<"U+1FBA", <<"U+1F70">>>>,
  <<"U+1FBB", <<"U+1F71">>>>,
  <<"U+1FBC", <<"U+1FB3">>>>,
  <<"U+1FC8", <<"U+1F72">>>>,
  <<"U+1FC9", <<"U+1F73">>>>,
  <<"U+1FCA", <<"U+1F74">>>>,
  <<"U+1FCB", <<"U+1F75">>>>,
  <<"U+1FCC", <<"U+1FC3">>>>,
  <<"U+1FD8", <<"U+1FD0">>>>,
  <<"U+1FD9", <<"U+1FD1">>>>,
  <<"U+1FDA", <<"U+1F76">>>>,
  <<"U+1FDB", <<"U+1F77">>>>,
  <<"U+1FE8", <<"U+1FE0">>>>,
  <<"U+1FE9", <<"U+1FE1">>>>,
  <<"U+1FEA", <<"U+1F7A">>>>,
  <<"U+1FEB", <<"U+1F7B">>>>,
  <<"U+1FEC", <<"U+1FE5">>>>,
  <<"U+1FF8", <<"U+1F78">>>>,
  <<"U+1FF9", <<"U+1F79">>>>,
  <<"U+1FFA", <<"U+1F7C">>>>,
  <<"U+1FFB", <<"U+1F7D">>>>,
  <<"U+1FFC", <<"U+1FF3">>>>,
  <<"U+2126", <<"U+03C9">>>>,
  <<"U+212A", <<"k">>>>,
  <<"U+212B", <<"U+00E5">>>>,
  <<"U+2132", <<"U+214E">>>>,
  <<"U+2160", <<"U+2170">>>>,
  <<"U+2161", <<"U+2171">>>>,
  <<"U+2162", <<"U+2172">>>>,
  <<"U+2163", <<"U+2173">>>>,
  <<"U+2164", <<"U+2174">>>>,
  <<"U+2165", <<"U+2175">>>>,
  <<"U+2166", <<"U+2176">>>>,
  <<"U+2167", <<"U+2177">>>>,
  <<"U+2168", <<"U+2178">>>>,
  <<"U+2169", <<"U+2179">>>>,
  <<"U+216A", <<"U+217A">>>>,
  <<"U+216B", <<"U+217B">>>>,
  <<"U+216C", <<"U+217C">>>>,
  <<"U+216D", <<"U+217D">>>>,
  <<"U+216E", <<"U+217E">>>>,
  <<"U+216F", <<"U+217F">>>>,
  <<"U+2183", <<"U+2184">>>>,
  <<"U+24B6", <<"U+24D0">>>>,
  <<"U+24B7", <<"U+24D1">>>>,
  <<"U+24B8", <<"U+24D2">>>>,
  <<"U+24B9", <<"U+24D3">>>>,
  <<"U+24BA", <<"U+24D4">>>>,
  <<"U+24BB", <<"U+24D5">>>>,
  <<"U+24BC", <<"U+24D6">>>>,
  <<"U+24BD", <<"U+24D7">>>>,
  <<"U+24BE", <<"U+24D8">>>>,
  <<"U+24BF", <<"U+24D9">>>>,
  <<"U+24C0", <<"U+24DA">>>>,
  <<"U+24C1", <<"U+24DB">>>>,
  <<"U+24C2", <<"U+24DC">>>>,
  <<"U+24C3", <<"U+24DD">>>>,
  <<"U+24C4", <<"U+24DE">>>>,
  <<"U+24C5", <<"U+24DF">>>>,
  <<"U+24C6", <<"U+24E0">>>>,
  <<"U+24C7", <<"U+24E1">>>>,
  <<"U+24C8", <<"U+24E2">>>>,
  <<"U+24C9", <<"U+24E3">>>>,
  <<"U+24CA", <<"U+24E4">>>>,
  <<"U+24CB", <<"U+24E5">>>>,
  <<"U+24CC", <<"U+24E6">>>>,
  <<"U+24CD", <<"U+24E7">>>>,
  <<"U+24CE", <<"U+24E8">>>>,
  <<"U+24CF", <<"U+24E9">>>>,
  <<"U+2C00", <<"U+2C30">>>>,
  <<"U+2C01", <<"U+2C31">>>>,
  <<"U+2C02", <<"U+2C32">>>>,
  <<"U+2C03", <<"U+2C33">>>>,
  <<"U+2C04", <<"U+2C34">>>>,
  <<"U+2C05", <<"U+2C35">>>>,
  <<"U+2C06", <<"U+2C36">>>>,
  <<"U+2C07", <<"U+2C37">>>>,
  <<"U+2C08", <<"U+2C38">>>>,
  <<"U+2C09", <<"U+2C39">>>>,
  <<"U+2C0A", <<"U+2C3A">>>>,
  <<"U+2C0B", <<"U+2C3B">>>>,
  <<"U+2C0C", <<"U+2C3C">>>>,
  <<"U+2C0D", <<"U+2C3D">>>>,
  <<"U+2C0E", <<"U+2C3E">>>>,
  <<"U+2C0F", <<"U+2C3F">>>>,
  <<"U+2C10", <<"U+2C40">>>>,
  <<"U+2C11", <<"U+2C41">>>>,
  <<"U+2C12", <<"U+2C42">>>>,
  <<"U+2C13", <<"U+2C43">>>>,
  <<"U+2C14", <<"U+2C44">>>>,
  <<"U+2C15", <<"U+2C45">>>>,
  <<"U+2C16", <<"U+2C46">>>>,
  <<"U+2C17", <<"U+2C47">>>>,
  <<"U+2C18", <<"U+2C48">>>>,
  <<"U+2C19", <<"U+2C49">>>>,
  <<"U+2C1A", <<"U+2C4A">>>>,
  <<"U+2C1B", <<"U+2C4B">>>>,
  <<"U+2C1C", <<"U+2C4C">>>>,
  <<"U+2C1D", <<"U+2C4D">>>>,
  <<"U+2C1E", <<"U+2C4E">>>>,
  <<"U+2C1F", <<"U+2C4F">>>>,
  <<"U+2C20", <<"U+2C50">>>>,
  <<"U+2C21", <<"U+2C51">>>>,
  <<"U+2C22", <<"U+2C52">>>>,
  <<"U+2C23", <<"U+2C53">>>>,
  <<"U+2C24", <<"U+2C54">>>>,
  <<"U+2C25", <<"U+2C55">>>>,
  <<"U+2C26", <<"U+2C56">>>>,
  <<"U+2C27", <<"U+2C57">>>>,
  <<"U+2C28", <<"U+2C58">>>>,
  <<"U+2C29", <<"U+2C59">>>>,
  <<"U+2C2A", <<"U+2C5A">>>>,
  <<"U+2C2B", <<"U+2C5B">>>>,
  <<"U+2C2C", <<"U+2C5C">>>>,
  <<"U+2C2D", <<"U+2C5D">>>>,
  <<"U+2C2E", <<"U+2C5E">>>>,
  <<"U+2C2F", <<"U+2C5F">>>>,
  <<"U+2C60", <<"U+2C61">>>>,
  <<"U+2C62", <<"U+026B">>>>,
  <<"U+2C63", <<"U+1D7D">>>>,
  <<"U+2C64", <<"U+027D">>>>,
  <<"U+2C67", <<"U+2C68">>>>,
  <<"U+2C69", <<"U+2C6A">>>>,
  <<"U+2C6B", <<"U+2C6C">>>>,
  <<"U+2C6D", <<"U+0251">>>>,
  <<"U+2C6E", <<"U+0271">>>>,
  <<"U+2C6F", <<"U+0250">>>>,
  <<"U+2C70", <<"U+0252">>>>,
  <<"U+2C72", <<"U+2C73">>>>,
  <<"U+2C75", <<"U+2C76">>>>,
  <<"U+2C7E", <<"U+023F">>>>,
  <<"U+2C7F", <<"U+0240">>>>,
  <<"U+2C80", <<"U+2C81">>>>,
  <<"U+2C82", <<"U+2C83">>>>,
  <<"U+2C84", <<"U+2C85">>>>,
  <<"U+2C86", <<"U+2C87">>>>,
  <<"U+2C88", <<"U+2C89">>>>,
  <<"U+2C8A", <<"U+2C8B">>>>,
  <<"U+2C8C", <<"U+2C8D">>>>,
  <<"U+2C8E", <<"U+2C8F">>>>,
  <<"U+2C90", <<"U+2C91">>>>,
  <<"U+2C92", <<"U+2C93">>>>,
  <<"U+2C94", <<"U+2C95">>>>,
  <<"U+2C96", <<"U+2C97">>>>,
  <<"U+2C98", <<"U+2C99">>>>,
  <<"U+2C9A", <<"U+2C9B">>>>,
  <<"U+2C9C", <<"U+2C9D">>>>,
  <<"U+2C9E", <<"U+2C9F">>>>,
  <<"U+2CA0", <<"U+2CA1">>>>,
  <<"U+2CA2", <<"U+2CA3">>>>,
  <<"U+2CA4", <<"U+2CA5">>>>,
  <<"U+2CA6", <<"U+2CA7">>>>,
  <<"U+2CA8", <<"U+2CA9">>>>,
  <<"U+2CAA", <<"U+2CAB">>>>,
  <<"U+2CAC", <<"U+2CAD">>>>,
  <<"U+2CAE", <<"U+2CAF">>>>,
  <<"U+2CB0", <<"U+2CB1">>>>,
  <<"U+2CB2", <<"U+2CB3">>>>,
  <<"U+2CB4", <<"U+2CB5">>>>,
  <<"U+2CB6", <<"U+2CB7">>>>,
  <<"U+2CB8", <<"U+2CB9">>>>,
  <<"U+2CBA", <<"U+2CBB">>>>,
  <<"U+2CBC", <<"U+2CBD">>>>,
  <<"U+2CBE", <<"U+2CBF">>>>,
  <<"U+2CC0", <<"U+2CC1">>>>,
  <<"U+2CC2", <<"U+2CC3">>>>,
  <<"U+2CC4", <<"U+2CC5">>>>,
  <<"U+2CC6", <<"U+2CC7">>>>,
  <<"U+2CC8", <<"U+2CC9">>>>,
  <<"U+2CCA", <<"U+2CCB">>>>,
  <<"U+2CCC", <<"U+2CCD">>>>,
  <<"U+2CCE", <<"U+2CCF">>>>,
  <<"U+2CD0", <<"U+2CD1">>>>,
  <<"U+2CD2", <<"U+2CD3">>>>,
  <<"U+2CD4", <<"U+2CD5">>>>,
  <<"U+2CD6", <<"U+2CD7">>>>,
  <<"U+2CD8", <<"U+2CD9">>>>,
  <<"U+2CDA", <<"U+2CDB">>>>,
  <<"U+2CDC", <<"U+2CDD">>>>,
  <<"U+2CDE", <<"U+2CDF">>>>,
  <<"U+2CE0", <<"U+2CE1">>>>,
  <<"U+2CE2", <<"U+2CE3">>>>,
  <<"U+2CEB", <<"U+2CEC">>>>,
  <<"U+2CED", <<"U+2CEE">>>>,
  <<"U+2CF2", <<"U+2CF3">>>>,
  <<"U+A640", <<"U+A641">>>>,
  <<"U+A642", <<"U+A643">>>>,
  <<"U+A644", <<"U+A645">>>>,
  <<"U+A646", <<"U+A647">>>>,
  <<"U+A648", <<"U+A649">>>>,
  <<"U+A64A", <<"U+A64B">>>>,
  <<"U+A64C", <<"U+A64D">>>>,
  <<"U+A64E", <<"U+A64F">>>>,
  <<"U+A650", <<"U+A651">>>>,
  <<"U+A652", <<"U+A653">>>>,
  <<"U+A654", <<"U+A655">>>>,
  <<"U+A656", <<"U+A657">>>>,
  <<"U+A658", <<"U+A659">>>>,
  <<"U+A65A", <<"U+A65B">>>>,
  <<"U+A65C", <<"U+A65D">>>>,
  <<"U+A65E", <<"U+A65F">>>>,
  <<"U+A660", <<"U+A661">>>>,
  <<"U+A662", <<"U+A663">>>>,
  <<"U+A664", <<"U+A665">>>>,
  <<"U+A666", <<"U+A667">>>>,
  <<"U+A668", <<"U+A669">>>>,
  <<"U+A66A", <<"U+A66B">>>>,
  <<"U+A66C", <<"U+A66D">>>>,
  <<"U+A680", <<"U+A681">>>>,
  <<"U+A682", <<"U+A683">>>>,
  <<"U+A684", <<"U+A685">>>>,
  <<"U+A686", <<"U+A687">>>>,
  <<"U+A688", <<"U+A689">>>>,
  <<"U+A68A", <<"U+A68B">>>>,
  <<"U+A68C", <<"U+A68D">>>>,
  <<"U+A68E", <<"U+A68F">>>>,
  <<"U+A690", <<"U+A691">>>>,
  <<"U+A692", <<"U+A693">>>>,
  <<"U+A694", <<"U+A695">>>>,
  <<"U+A696", <<"U+A697">>>>,
  <<"U+A698", <<"U+A699">>>>,
  <<"U+A69A", <<"U+A69B">>>>,
  <<"U+A722", <<"U+A723">>>>,
  <<"U+A724", <<"U+A725">>>>,
  <<"U+A726", <<"U+A727">>>>,
  <<"U+A728", <<"U+A729">>>>,
  <<"U+A72A", <<"U+A72B">>>>,
  <<"U+A72C", <<"U+A72D">>>>,
  <<"U+A72E", <<"U+A72F">>>>,
  <<"U+A732", <<"U+A733">>>>,
  <<"U+A734", <<"U+A735">>>>,
  <<"U+A736", <<"U+A737">>>>,
  <<"U+A738", <<"U+A739">>>>,
  <<"U+A73A", <<"U+A73B">>>>,
  <<"U+A73C", <<"U+A73D">>>>,
  <<"U+A73E", <<"U+A73F">>>>,
  <<"U+A740", <<"U+A741">>>>,
  <<"U+A742", <<"U+A743">>>>,
  <<"U+A744", <<"U+A745">>>>,
  <<"U+A746", <<"U+A747">>>>,
  <<"U+A748", <<"U+A749">>>>,
  <<"U+A74A", <<"U+A74B">>>>,
  <<"U+A74C", <<"U+A74D">>>>,
  <<"U+A74E", <<"U+A74F">>>>,
  <<"U+A750", <<"U+A751">>>>,
  <<"U+A752", <<"U+A753">>>>,
  <<"U+A754", <<"U+A755">>>>,
  <<"U+A756", <<"U+A757">>>>,
  <<"U+A758", <<"U+A759">>>>,
  <<"U+A75A", <<"U+A75B">>>>,
  <<"U+A75C", <<"U+A75D">>>>,
  <<"U+A75E", <<"U+A75F">>>>,
  <<"U+A760", <<"U+A761">>>>,
  <<"U+A762", <<"U+A763">>>>,
  <<"U+A764", <<"U+A765">>>>,
  <<"U+A766", <<"U+A767">>>>,
  <<"U+A768", <<"U+A769">>>>,
  <<"U+A76A", <<"U+A76B">>>>,
  <<"U+A76C", <<"U+A76D">>>>,
  <<"U+A76E", <<"U+A76F">>>>,
  <<"U+A779", <<"U+A77A">>>>,
  <<"U+A77B", <<"U+A77C">>>>,
  <<"U+A77D", <<"U+1D79">>>>,
  <<"U+A77E", <<"U+A77F">>>>,
  <<"U+A780", <<"U+A781">>>>,
  <<"U+A782", <<"U+A783">>>>,
  <<"U+A784", <<"U+A785">>>>,
  <<"U+A786", <<"U+A787">>>>,
  <<"U+A78B", <<"U+A78C">>>>,
  <<"U+A78D", <<"U+0265">>>>,
  <<"U+A790", <<"U+A791">>>>,
  <<"U+A792", <<"U+A793">>>>,
  <<"U+A796", <<"U+A797">>>>,
  <<"U+A798", <<"U+A799">>>>,
  <<"U+A79A", <<"U+A79B">>>>,
  <<"U+A79C", <<"U+A79D">>>>,
  <<"U+A79E", <<"U+A79F">>>>,
  <<"U+A7A0", <<"U+A7A1">>>>,
  <<"U+A7A2", <<"U+A7A3">>>>,
  <<"U+A7A4", <<"U+A7A5">>>>,
  <<"U+A7A6", <<"U+A7A7">>>>,
  <<"U+A7A8", <<"U+A7A9">>>>,
  <<"U+A7AA", <<"U+0266">>>>,
  <<"U+A7AB", <<"U+025C">>>>,
  <<"U+A7AC", <<"U+0261">>>>,
  <<"U+A7AD", <<"U+026C">>>>,
  <<"U+A7AE", <<"U+026A">>>>,
  <<"U+A7B0", <<"U+029E">>>>,
  <<"U+A7B1", <<"U+0287">>>>,
  <<"U+A7B2", <<"U+029D">>>>,
  <<"U+A7B3", <<"U+AB53">>>>,
  <<"U+A7B4", <<"U+A7B5">>>>,
  <<"U+A7B6", <<"U+A7B7">>>>,
  <<"U+A7B8", <<"U+A7B9">>>>,
  <<"U+A7BA", <<"U+A7BB">>>>,
  <<"U+A7BC", <<"U+A7BD">>>>,
  <<"U+A7BE", <<"U+A7BF">>>>,
  <<"U+A7C0", <<"U+A7C1">>>>,
  <<"U+A7C2", <<"U+A7C3">>>>,
  <<"U+A7C4", <<"U+A794">>>>,
  <<"U+A7C5", <<"U+0282">>>>,
  <<"U+A7C6", <<"U+1D8E">>>>,
  <<"U+A7C7", <<"U+A7C8">>>>,
  <<"U+A7C9", <<"U+A7CA">>>>,
  <<"U+A7D0", <<"U+A7D1">>>>,
  <<"U+A7D6", <<"U+A7D7">>>>,
  <<"U+A7D8", <<"U+A7D9">>>>,
  <<"U+A7F5", <<"U+A7F6">>>>,
  <<"U+FF21", <<"U+FF41">>>>,
  <<"U+FF22", <<"U+FF42">>>>,
  <<"U+FF23", <<"U+FF43">>>>,
  <<"U+FF24", <<"U+FF44">>>>,
  <<"U+FF25", <<"U+FF45">>>>,
  <<"U+FF26", <<"U+FF46">>>>,
  <<"U+FF27", <<"U+FF47">>>>,
  <<"U+FF28", <<"U+FF48">>>>,
  <<"U+FF29", <<"U+FF49">>>>,
  <<"U+FF2A", <<"U+FF4A">>>>,
  <<"U+FF2B", <<"U+FF4B">>>>,
  <<"U+FF2C", <<"U+FF4C">>>>,
  <<"U+FF2D", <<"U+FF4D">>>>,
  <<"U+FF2E", <<"U+FF4E">>>>,
  <<"U+FF2F", <<"U+FF4F">>>>,
  <<"U+FF30", <<"U+FF50">>>>,
  <<"U+FF31", <<"U+FF51">>>>,
  <<"U+FF32", <<"U+FF52">>>>,
  <<"U+FF33", <<"U+FF53">>>>,
  <<"U+FF34", <<"U+FF54">>>>,
  <<"U+FF35", <<"U+FF55">>>>,
  <<"U+FF36", <<"U+FF56">>>>,
  <<"U+FF37", <<"U+FF57">>>>,
  <<"U+FF38", <<"U+FF58">>>>,
  <<"U+FF39", <<"U+FF59">>>>,
  <<"U+FF3A", <<"U+FF5A">>>>,
  <<"U+10400", <<"U+10428">>>>,
  <<"U+10401", <<"U+10429">>>>,
  <<"U+10402", <<"U+1042A">>>>,
  <<"U+10403", <<"U+1042B">>>>,
  <<"U+10404", <<"U+1042C">>>>,
  <<"U+10405", <<"U+1042D">>>>,
  <<"U+10406", <<"U+1042E">>>>,
  <<"U+10407", <<"U+1042F">>>>,
  <<"U+10408", <<"U+10430">>>>,
  <<"U+10409", <<"U+10431">>>>,
  <<"U+1040A", <<"U+10432">>>>,
  <<"U+1040B", <<"U+10433">>>>,
  <<"U+1040C", <<"U+10434">>>>,
  <<"U+1040D", <<"U+10435">>>>,
  <<"U+1040E", <<"U+10436">>>>,
  <<"U+1040F", <<"U+10437">>>>,
  <<"U+10410", <<"U+10438">>>>,
  <<"U+10411", <<"U+10439">>>>,
  <<"U+10412", <<"U+1043A">>>>,
  <<"U+10413", <<"U+1043B">>>>,
  <<"U+10414", <<"U+1043C">>>>,
  <<"U+10415", <<"U+1043D">>>>,
  <<"U+10416", <<"U+1043E">>>>,
  <<"U+10417", <<"U+1043F">>>>,
  <<"U+10418", <<"U+10440">>>>,
  <<"U+10419", <<"U+10441">>>>,
  <<"U+1041A", <<"U+10442">>>>,
  <<"U+1041B", <<"U+10443">>>>,
  <<"U+1041C", <<"U+10444">>>>,
  <<"U+1041D", <<"U+10445">>>>,
  <<"U+1041E", <<"U+10446">>>>,
  <<"U+1041F", <<"U+10447">>>>,
  <<"U+10420", <<"U+10448">>>>,
  <<"U+10421", <<"U+10449">>>>,
  <<"U+10422", <<"U+1044A">>>>,
  <<"U+10423", <<"U+1044B">>>>,
  <<"U+10424", <<"U+1044C">>>>,
  <<"U+10425", <<"U+1044D">>>>,
  <<"U+10426", <<"U+1044E">>>>,
  <<"U+10427", <<"U+1044F">>>>,
  <<"U+104B0", <<"U+104D8">>>>,
  <<"U+104B1", <<"U+104D9">>>>,
  <<"U+104B2", <<"U+104DA">>>>,
  <<"U+104B3", <<"U+104DB">>>>,
  <<"U+104B4", <<"U+104DC">>>>,
  <<"U+104B5", <<"U+104DD">>>>,
  <<"U+104B6", <<"U+104DE">>>>,
  <<"U+104B7", <<"U+104DF">>>>,
  <<"U+104B8", <<"U+104E0">>>>,
  <<"U+104B9", <<"U+104E1">>>>,
  <<"U+104BA", <<"U+104E2">>>>,
  <<"U+104BB", <<"U+104E3">>>>,
  <<"U+104BC", <<"U+104E4">>>>,
  <<"U+104BD", <<"U+104E5">>>>,
  <<"U+104BE", <<"U+104E6">>>>,
  <<"U+104BF", <<"U+104E7">>>>,
  <<"U+104C0", <<"U+104E8">>>>,
  <<"U+104C1", <<"U+104E9">>>>,
  <<"U+104C2", <<"U+104EA">>>>,
  <<"U+104C3", <<"U+104EB">>>>,
  <<"U+104C4", <<"U+104EC">>>>,
  <<"U+104C5", <<"U+104ED">>>>,
  <<"U+104C6", <<"U+104EE">>>>,
  <<"U+104C7", <<"U+104EF">>>>,
  <<"U+104C8", <<"U+104F0">>>>,
  <<"U+104C9", <<"U+104F1">>>>,
  <<"U+104CA", <<"U+104F2">>>>,
  <<"U+104CB", <<"U+104F3">>>>,
  <<"U+104CC", <<"U+104F4">>>>,
  <<"U+104CD", <<"U+104F5">>>>,
  <<"U+104CE", <<"U+104F6">>>>,
  <<"U+104CF", <<"U+104F7">>>>,
  <<"U+104D0", <<"U+104F8">>>>,
  <<"U+104D1", <<"U+104F9">>>>,
  <<"U+104D2", <<"U+104FA">>>>,
  <<"U+104D3", <<"U+104FB">>>>,
  <<"U+10570", <<"U+10597">>>>,
  <<"U+10571", <<"U+10598">>>>,
  <<"U+10572", <<"U+10599">>>>,
  <<"U+10573", <<"U+1059A">>>>,
  <<"U+10574", <<"U+1059B">>>>,
  <<"U+10575", <<"U+1059C">>>>,
  <<"U+10576", <<"U+1059D">>>>,
  <<"U+10577", <<"U+1059E">>>>,
  <<"U+10578", <<"U+1059F">>>>,
  <<"U+10579", <<"U+105A0">>>>,
  <<"U+1057A", <<"U+105A1">>>>,
  <<"U+1057C", <<"U+105A3">>>>,
  <<"U+1057D", <<"U+105A4">>>>,
  <<"U+1057E", <<"U+105A5">>>>,
  <<"U+1057F", <<"U+105A6">>>>,
  <<"U+10580", <<"U+105A7">>>>,
  <<"U+10581", <<"U+105A8">>>>,
  <<"U+10582", <<"U+105A9">>>>,
  <<"U+10583", <<"U+105AA">>>>,
  <<"U+10584", <<"U+105AB">>>>,
  <<"U+10585", <<"U+105AC">>>>,
  <<"U+10586", <<"U+105AD">>>>,
  <<"U+10587", <<"U+105AE">>>>,
  <<"U+10588", <<"U+105AF">>>>,
  <<"U+10589", <<"U+105B0">>>>,
  <<"U+1058A", <<"U+105B1">>>>,
  <<"U+1058C", <<"U+105B3">>>>,
  <<"U+1058D", <<"U+105B4">>>>,
  <<"U+1058E", <<"U+105B5">>>>,
  <<"U+1058F", <<"U+105B6">>>>,
  <<"U+10590", <<"U+105B7">>>>,
  <<"U+10591", <<"U+105B8">>>>,
  <<"U+10592", <<"U+105B9">>>>,
  <<"U+10594", <<"U+105BB">>>>,
  <<"U+10595", <<"U+105BC">>>>,
  <<"U+10C80", <<"U+10CC0">>>>,
  <<"U+10C81", <<"U+10CC1">>>>,
  <<"U+10C82", <<"U+10CC2">>>>,
  <<"U+10C83", <<"U+10CC3">>>>,
  <<"U+10C84", <<"U+10CC4">>>>,
  <<"U+10C85", <<"U+10CC5">>>>,
  <<"U+10C86", <<"U+10CC6">>>>,
  <<"U+10C87", <<"U+10CC7">>>>,
  <<"U+10C88", <<"U+10CC8">>>>,
  <<"U+10C89", <<"U+10CC9">>>>,
  <<"U+10C8A", <<"U+10CCA">>>>,
  <<"U+10C8B", <<"U+10CCB">>>>,
  <<"U+10C8C", <<"U+10CCC">>>>,
  <<"U+10C8D", <<"U+10CCD">>>>,
  <<"U+10C8E", <<"U+10CCE">>>>,
  <<"U+10C8F", <<"U+10CCF">>>>,
  <<"U+10C90", <<"U+10CD0">>>>,
  <<"U+10C91", <<"U+10CD1">>>>,
  <<"U+10C92", <<"U+10CD2">>>>,
  <<"U+10C93", <<"U+10CD3">>>>,
  <<"U+10C94", <<"U+10CD4">>>>,
  <<"U+10C95", <<"U+10CD5">>>>,
  <<"U+10C96", <<"U+10CD6">>>>,
  <<"U+10C97", <<"U+10CD7">>>>,
  <<"U+10C98", <<"U+10CD8">>>>,
  <<"U+10C99", <<"U+10CD9">>>>,
  <<"U+10C9A", <<"U+10CDA">>>>,
  <<"U+10C9B", <<"U+10CDB">>>>,
  <<"U+10C9C", <<"U+10CDC">>>>,
  <<"U+10C9D", <<"U+10CDD">>>>,
  <<"U+10C9E", <<"U+10CDE">>>>,
  <<"U+10C9F", <<"U+10CDF">>>>,
  <<"U+10CA0", <<"U+10CE0">>>>,
  <<"U+10CA1", <<"U+10CE1">>>>,
  <<"U+10CA2", <<"U+10CE2">>>>,
  <<"U+10CA3", <<"U+10CE3">>>>,
  <<"U+10CA4", <<"U+10CE4">>>>,
  <<"U+10CA5", <<"U+10CE5">>>>,
  <<"U+10CA6", <<"U+10CE6">>>>,
  <<"U+10CA7", <<"U+10CE7">>>>,
  <<"U+10CA8", <<"U+10CE8">>>>,
  <<"U+10CA9", <<"U+10CE9">>>>,
  <<"U+10CAA", <<"U+10CEA">>>>,
  <<"U+10CAB", <<"U+10CEB">>>>,
  <<"U+10CAC", <<"U+10CEC">>>>,
  <<"U+10CAD", <<"U+10CED">>>>,
  <<"U+10CAE", <<"U+10CEE">>>>,
  <<"U+10CAF", <<"U+10CEF">>>>,
  <<"U+10CB0", <<"U+10CF0">>>>,
  <<"U+10CB1", <<"U+10CF1">>>>,
  <<"U+10CB2", <<"U+10CF2">>>>,
  <<"U+118A0", <<"U+118C0">>>>,
  <<"U+118A1", <<"U+118C1">>>>,
  <<"U+118A2", <<"U+118C2">>>>,
  <<"U+118A3", <<"U+118C3">>>>,
  <<"U+118A4", <<"U+118C4">>>>,
  <<"U+118A5", <<"U+118C5">>>>,
  <<"U+118A6", <<"U+118C6">>>>,
  <<"U+118A7", <<"U+118C7">>>>,
  <<"U+118A8", <<"U+118C8">>>>,
  <<"U+118A9", <<"U+118C9">>>>,
  <<"U+118AA", <<"U+118CA">>>>,
  <<"U+118AB", <<"U+118CB">>>>,
  <<"U+118AC", <<"U+118CC">>>>,
  <<"U+118AD", <<"U+118CD">>>>,
  <<"U+118AE", <<"U+118CE">>>>,
  <<"U+118AF", <<"U+118CF">>>>,
  <<"U+118B0", <<"U+118D0">>>>,
  <<"U+118B1", <<"U+118D1">>>>,
  <<"U+118B2", <<"U+118D2">>>>,
  <<"U+118B3", <<"U+118D3">>>>,
  <<"U+118B4", <<"U+118D4">>>>,
  <<"U+118B5", <<"U+118D5">>>>,
  <<"U+118B6", <<"U+118D6">>>>,
  <<"U+118B7", <<"U+118D7">>>>,
  <<"U+118B8", <<"U+118D8">>>>,
  <<"U+118B9", <<"U+118D9">>>>,
  <<"U+118BA", <<"U+118DA">>>>,
  <<"U+118BB", <<"U+118DB">>>>,
  <<"U+118BC", <<"U+118DC">>>>,
  <<"U+118BD", <<"U+118DD">>>>,
  <<"U+118BE", <<"U+118DE">>>>,
  <<"U+118BF", <<"U+118DF">>>>,
  <<"U+16E40", <<"U+16E60">>>>,
  <<"U+16E41", <<"U+16E61">>>>,
  <<"U+16E42", <<"U+16E62">>>>,
  <<"U+16E43", <<"U+16E63">>>>,
  <<"U+16E44", <<"U+16E64">>>>,
  <<"U+16E45", <<"U+16E65">>>>,
  <<"U+16E46", <<"U+16E66">>>>,
  <<"U+16E47", <<"U+16E67">>>>,
  <<"U+16E48", <<"U+16E68">>>>,
  <<"U+16E49", <<"U+16E69">>>>,
  <<"U+16E4A", <<"U+16E6A">>>>,
  <<"U+16E4B", <<"U+16E6B">>>>,
  <<"U+16E4C", <<"U+16E6C">>>>,
  <<"U+16E4D", <<"U+16E6D">>>>,
  <<"U+16E4E", <<"U+16E6E">>>>,
  <<"U+16E4F", <<"U+16E6F">>>>,
  <<"U+16E50", <<"U+16E70">>>>,
  <<"U+16E51", <<"U+16E71">>>>,
  <<"U+16E52", <<"U+16E72">>>>,
  <<"U+16E53", <<"U+16E73">>>>,
  <<"U+16E54", <<"U+16E74">>>>,
  <<"U+16E55", <<"U+16E75">>>>,
  <<"U+16E56", <<"U+16E76">>>>,
  <<"U+16E57", <<"U+16E77">>>>,
  <<"U+16E58", <<"U+16E78">>>>,
  <<"U+16E59", <<"U+16E79">>>>,
  <<"U+16E5A", <<"U+16E7A">>>>,
  <<"U+16E5B", <<"U+16E7B">>>>,
  <<"U+16E5C", <<"U+16E7C">>>>,
  <<"U+16E5D", <<"U+16E7D">>>>,
  <<"U+16E5E", <<"U+16E7E">>>>,
  <<"U+16E5F", <<"U+16E7F">>>>,
  <<"U+1E900", <<"U+1E922">>>>,
  <<"U+1E901", <<"U+1E923">>>>,
  <<"U+1E902", <<"U+1E924">>>>,
  <<"U+1E903", <<"U+1E925">>>>,
  <<"U+1E904", <<"U+1E926">>>>,
  <<"U+1E905", <<"U+1E927">>>>,
  <<"U+1E906", <<"U+1E928">>>>,
  <<"U+1E907", <<"U+1E929">>>>,
  <<"U+1E908", <<"U+1E92A">>>>,
  <<"U+1E909", <<"U+1E92B">>>>,
  <<"U+1E90A", <<"U+1E92C">>>>,
  <<"U+1E90B", <<"U+1E92D">>>>,
  <<"U+1E90C", <<"U+1E92E">>>>,
  <<"U+1E90D", <<"U+1E92F">>>>,
  <<"U+1E90E", <<"U+1E930">>>>,
  <<"U+1E90F", <<"U+1E931">>>>,
  <<"U+1E910", <<"U+1E932">>>>,
  <<"U+1E911", <<"U+1E933">>>>,
  <<"U+1E912", <<"U+1E934">>>>,
  <<"U+1E913", <<"U+1E935">>>>,
  <<"U+1E914", <<"U+1E936">>>>,
  <<"U+1E915", <<"U+1E937">>>>,
  <<"U+1E916", <<"U+1E938">>>>,
  <<"U+1E917", <<"U+1E939">>>>,
  <<"U+1E918", <<"U+1E93A">>>>,
  <<"U+1E919", <<"U+1E93B">>>>,
  <<"U+1E91A", <<"U+1E93C">>>>,
  <<"U+1E91B", <<"U+1E93D">>>>,
  <<"U+1E91C", <<"U+1E93E">>>>,
  <<"U+1E91D", <<"U+1E93F">>>>,
  <<"U+1E91E", <<"U+1E940">>>>,
  <<"U+1E91F", <<"U+1E941">>>>,
  <<"U+1E920", <<"U+1E942">>>>,
  <<"U+1E921", <<"U+1E943">>>> }

\* str.isprintable() of one character
Printable(c) == ~InRanges(CodePoint(c), NonPrintableRanges)

CaseIgnorable(c) == InRanges(CodePoint(c), CaseIgnorableRanges)

Cased(c) == InRanges(CodePoint(c), CasedRanges)

LowerKeys == {pr[1] : pr \in LowerPairs}

LowerTable == [c \in LowerKeys |-> (CHOOSE pr \in LowerPairs : pr[1] = c)[2]]

\* the full lower-case mapping of one character, as a character sequence
LowerChar(c) == IF c \in LowerKeys THEN LowerTable[c] ELSE <<c>>

\* CPython's handle_capital_sigma: U+03A3 at position i lowers to the final
\* sigma U+03C2 when, skipping case-ignorable characters, a cased character
\* precedes it and none follows it
FinalSigma(s, i) ==
  LET before == {j \in 1..(i - 1) : ~CaseIgnorable(s[j])}
      after  == {j \in (i + 1)..Len(s) : ~CaseIgnorable(s[j])}
  IN /\ before # {}
     /\ Cased(s[CHOOSE j \in before : \A k \in before : k <= j])
     /\ \/ after = {}
        \/ ~Cased(s[CHOOSE j \in after : \A k \in after : j <= k])

RECURSIVE LowerFrom(_, _)
LowerFrom(s, i) ==
  IF i > Len(s) THEN <<>>
  ELSE (IF s[i] = "U+03A3"
        THEN IF FinalSigma(s, i) THEN <<"U+03C2">> ELSE <<"U+03C3">>
        ELSE LowerChar(s[i])) \o LowerFrom(s, i + 1)

\* str.lower()
Lower(s) == LowerFrom(s, 1)

\* Python's `sub in s`
Contains(s, sub) == \E i \in 0..(Len(s) - Len(sub)) :
                      SubSeq(s, i + 1, i + Len(sub)) = sub

\* the w lower-case hex digits of n
HexDigits(n, w) == [i \in 1..w |-> LET k == (n \div 16 ^ (w - i)) % 16
                                   IN SubSeq(HexLower, k + 1, k + 1)]

\* one character of repr(s) quoted with q (CPython unicode_repr)
ReprChar(c, q) ==
  LET n == CodePoint(c) IN
  CASE c = q \/ c = "\\"     -> <<"\\", c>>
  []   c = "\t"              -> <<"\\", "t">>
  []   c = "\n"              -> <<"\\", "n">>
  []   c = "\r"              -> <<"\\", "r">>
  []   n < 32 \/ n = 127     -> <<"\\", "x">> \o HexDigits(n, 2)
  []   n < 127 \/ Printable(c) -> <<c>>
  []   n <= 255              -> <<"\\", "x">> \o HexDigits(n, 2)
  []   n <= 65535            -> <<"\\", "u">> \o HexDigits(n, 4)
  []   OTHER                 -> <<"\\", "U">> \o HexDigits(n, 8)

RECURSIVE ReprFrom(_, _, _)
ReprFrom(s, q, i) == IF i > Len(s) THEN <<>>
                     ELSE ReprChar(s[i], q) \o ReprFrom(s, q, i + 1)

\* repr(s): single quotes unless s holds ' and no "
PyRepr(s) ==
  LET q == IF (\E i \in 1..Len(s) : s[i] = "'") /\ ~(\E i \in 1..Len(s) : s[i] = "\"")
           THEN "\"" ELSE "'"
  IN <<q>> \o ReprFrom(s, q, 1) \o <<q>>

\* the characters Python's str.strip() removes (str.isspace())
Whitespace == { " ", "\t", "\n", "\r", "\f", "U+000B", "U+001C", "U+001D",
                "U+001E", "U+001F", "U+0085", "U+00A0", "U+1680", "U+2000",
                "U+2001", "U+2002", "U+2003", "U+2004", "U+2005", "U+2006",
                "U+2007", "U+2008", "U+2009", "U+200A", "U+2028", "U+2029",
                "U+202F", "U+205F", "U+3000" }

RECURSIVE TrimLeft(_)
TrimLeft(s) == IF s # <<>> /\ Head(s) \in Whitespace THEN TrimLeft(Tail(s)) ELSE s

RECURSIVE TrimRight(_)
TrimRight(s) == IF s # <<>> /\ s[Len(s)] \in Whitespace
                THEN TrimRight(SubSeq(s, 1, Len(s) - 1)) ELSE s

\* str.strip()
Strip(s) == TrimRight(TrimLeft(s))

\* ---------------------------------------------------------------- inputs
Prompts == { <<>>, <<"\t", "a", "b", "U+00A0">>, <<" ", "a", "b", "\n">>, Str("cat") }

\* Underlying video bytes a provider may hand back.
Datas == { <<>>, <<77, 97>> }

\* Files that exist on disk (path -> contents), one per element of Datas.
Disk == (Str("/tmp/hf_video.mp4") :> <<77, 97>>) @@ (Str("/tmp/hf_empty.mp4") :> <<>>)

\* the path of the existing file holding d
PathOf(d) == CHOOSE pth \in DOMAIN Disk : Disk[pth] = d

\* Paths of no existing file a provider may hand back.
MissingPaths == { Str("/nonexistent/it's duration.mp4") }

\* Messages of ordinary exceptions the provider call may raise.
ExcMsgs == { Str("NUM_FRAMES"), Str("frame count") }

\* Message of a TimeoutError-class exception the provider call may raise
\* (huggingface_hub's InferenceTimeoutError, socket.timeout).
TimeoutExcMsg == Str("timed out")

\* Python None
NONE == <<"None">>

\* ------------------------------------------------- base64.b64encode(...)
B64Alphabet == << "A", "B", "C", "D", "E", "F", "G", "H", "I", "J", "K", "L",
  "M", "N", "O", "P", "Q", "R", "S", "T", "U", "V", "W", "X", "Y", "Z", "a",
  "b", "c", "d", "e", "f", "g", "h", "i", "j", "k", "l", "m", "n", "o", "p",
  "q", "r", "s", "t", "u", "v", "w", "x", "y", "z", "0", "1", "2", "3", "4",
  "5", "6", "7", "8", "9", "+", "/", "=" >>

\* sextet indices of one group of up to three bytes; 64 is the pad '='
B64Group(b) ==
  LET n == Len(b)
      x == b[1] * 65536 + (IF n >= 2 THEN b[2] * 256 ELSE 0)
                        + (IF n >= 3 THEN b[3] ELSE 0)
  IN << x \div 262144, (x \div 4096) % 64,
        IF n >= 2 THEN (x \div 64) % 64 ELSE 64,
        IF n >= 3 THEN x % 64 ELSE 64 >>

RECURSIVE B64Indices(_)
B64Indices(b) == IF b = <<>> THEN <<>>
                 ELSE IF Len(b) <= 3 THEN B64Group(b)
                 ELSE B64Group(SubSeq(b, 1, 3)) \o B64Indices(SubSeq(b, 4, Len(b)))

B64Encode(b) == LET ix == B64Indices(b)
                IN [i \in 1..Len(ix) |-> B64Alphabet[ix[i] + 1]]

\* ------------------------------------------------------ provider payloads
\* What text_to_video hands back, as the Python value the code inspects:
\* type (type(video_result)), hasContent/content (the .content attribute),
\* hasRead/read (a read() method and the bytes it yields), bytes (the value
\* of a bytes object), path (the value of a str); type "raises" stands for
\* the call raising an exception of class excClass with str() msg.
\* shape is the spec's name for the payload and is not read by the code.
PyValue == [shape |-> "none", type |-> "NoneType", hasContent |-> FALSE,
            content |-> <<>>, hasRead |-> FALSE, read |-> <<>>, bytes |-> <<>>,
            path |-> <<>>, excClass |-> "none", msg |-> <<>>]

Payloads ==
     { PyValue }
  \cup { [PyValue EXCEPT !.shape = "bytes", !.type = "bytes", !.bytes = d] : d \in Datas }
  \cup { [PyValue EXCEPT !.shape = "content", !.type = "object",
                         !.hasContent = TRUE, !.content = d] : d \in Datas }
  \cup { [PyValue EXCEPT !.shape = "read", !.type = "object",
                         !.hasRead = TRUE, !.read = d] : d \in Datas }
  \cup { [PyValue EXCEPT !.shape = "path", !.type = "str", !.path = PathOf(d)] : d \in Datas }
     \* a response object with the body in .content and a consumed stream
  \cup { [PyValue EXCEPT !.shape = "content", !.type = "object", !.hasContent = TRUE,
                         !.content = <<77, 97>>, !.hasRead = TRUE, !.read = <<>>] }
  \cup { [PyValue EXCEPT !.shape = "pathMissing", !.type = "str", !.path = m] : m \in MissingPaths }
  \cup { [PyValue EXCEPT !.shape = "raise", !.type = "raises",
                         !.excClass = "Exception", !.msg = m] : m \in ExcMsgs }
  \cup { [PyValue EXCEPT !.shape = "raiseTimeout", !.type = "raises",
                         !.excClass = "TimeoutError", !.msg = TimeoutExcMsg] }

\* Python truthiness of video_result
Truthy(p) == CASE p.type = "NoneType" -> FALSE
             []   p.type = "bytes"    -> Len(p.bytes) > 0
             []   p.type = "str"      -> Len(p.path) > 0
             []   OTHER               -> TRUE

\* str(FileNotFoundError) raised by shutil.copy(src, dst) for a missing src
FileNotFoundMsg(src) == Str("[Errno 2] No such file or directory: ") \o PyRepr(src)

\* FileSave whose readable branch finds the stream already consumed
FileSaveConsumedStream(p) ==
  CASE p.hasContent        -> [raised |-> FALSE, data |-> p.content, msg |-> <<>>]
  []   p.type = "bytes"    -> [raised |-> FALSE, data |-> p.bytes, msg |-> <<>>]
  []   p.hasRead           -> [raised |-> FALSE, data |-> <<>>, msg |-> <<>>]
  []   p.path \in DOMAIN Disk -> [raised |-> FALSE, data |-> Disk[p.path], msg |-> <<>>]
  []   OTHER               -> [raised |-> TRUE, data |-> <<>>, msg |-> FileNotFoundMsg(p.path)]

\* file-backed save of a truthy video_result (video_generator.py 107-123):
\* the bytes written to video_path, or the exception the save raises;
\* the last branch is shutil.copy(str(video_result), video_path) of a str
FileSave(p) ==
  CASE p.hasContent        -> [raised |-> FALSE, data |-> p.content, msg |-> <<>>]
  []   p.type = "bytes"    -> [raised |-> FALSE, data |-> p.bytes, msg |-> <<>>]
  []   p.hasRead           -> [raised |-> FALSE, data |-> p.read, msg |-> <<>>]
  []   p.path \in DOMAIN Disk -> [raised |-> FALSE, data |-> Disk[p.path], msg |-> <<>>]
  []   OTHER               -> [raised |-> TRUE, data |-> <<>>, msg |-> FileNotFoundMsg(p.path)]

\* serverless normalisation of a truthy video_result (index.py 84-94):
\* video_data; found is FALSE when no branch matches (video_data = None)
ServerlessData(p) ==
  CASE p.hasContent     -> [found |-> TRUE, data |-> p.content]
  []   p.type = "bytes" -> [found |-> TRUE, data |-> p.bytes]
  []   p.hasRead        -> [found |-> TRUE, data |-> p.read]
  []   p.type = "str" /\ p.path \in DOMAIN Disk -> [found |-> TRUE, data |-> Disk[p.path]]
  []   OTHER            -> [found |-> FALSE, data |-> <<>>]

\* ------------------------------------------------------------- messages
MockVideoUrl == Str("/video-static/generated_videos/mock_video.mp4")
\* the task id (a uuid4 string in the code) is written as its number
VideoUrl(id) == Str("/video-static/generated_videos/generated_video_") \o Str(ToString(id)) \o Str(".mp4")
PromptTooShort == Str("Prompt must be at least 3 characters long")
HTTPExcStr(code, detail) == Str(code) \o Str(": ") \o detail
TimedOutMsg == Str("Video generation timed out. Try a shorter/simpler prompt.")
ModelLimitPrefix ==
  Str("Model limitation: The Wan-AI model may only support 5-second videos. Original error: ")

\* --------------------------------------------------------------- records
GenResult(st, url, data, id, msg) ==
  [status |-> st, video_url |-> url, video_data |-> data, task_id |-> id, message |-> msg]

\* VideoResponse (code 200) or HTTPException (code 400 / 500)
Response(code, st, url, data, id, msg, detail) ==
  [code |-> code, status |-> st, video_url |-> url, video_data |-> data,
   task_id |-> id, message |-> msg, detail |-> detail]

HTTPError(code, detail) == Response(code, NONE, NONE, NONE, 0, NONE, detail)

TaskRecord(st, prov, prompt, url, err) ==
  [status |-> st, provider |-> prov, prompt |-> prompt, video_url |-> url, error |-> err]

\* ------------------------------------------------------------- variables
VARIABLES
  deployment, \* "server" (backend/main.py) or "serverless" (backend/api/index.py)
  hfToken,    \* HF_TOKEN set in the environment
  clientOk,   \* InferenceClient construction succeeds (VideoGenerator.__init__,
              \* and generate_video_serverless at index.py:59)
  tasks,      \* VideoGenerator.generation_tasks : task id -> record
  files,      \* static/generated_videos/generated_video_<id>.mp4 contents
  nextId,     \* uuid.uuid4(): the next fresh id
  slots,      \* per concurrently handled request: its coroutine state
  lookup      \* response of a status lookup made in the last step: id asked
              \* and projection returned (NoLookup after any other step)

vars == <<deployment, hfToken, clientOk, tasks, files, nextId, slots, lookup>>

Slots == 1..MaxReq
\* the ids the requests are given, and one that is never given
TaskIds == 1..MaxReq
LookupIds == 1..(MaxReq + 1)

NoResult == GenResult(NONE, NONE, NONE, 0, NONE)
NoResponse == Response(0, NONE, NONE, NONE, 0, NONE, NONE)

\* payload of a provider call that has not returned
Pending == [PyValue EXCEPT !.shape = "pending", !.type = "pending"]

\* pay: what the provider call handed back; exc: text of the exception
\* that reached the handler's `except Exception` clause
IdleSlot == [pc |-> "idle", prompt |-> <<>>, id |-> 0,
             elapsed |-> 0, pay |-> Pending, exc |-> NONE,
             gres |-> NoResult, resp |-> NoResponse]

NoLookup == [id |-> 0, res |-> NoResult]

Init ==
  /\ deployment \in {"server", "serverless"}
  /\ hfToken \in BOOLEAN
  /\ clientOk \in IF hfToken THEN BOOLEAN ELSE {FALSE}
  /\ tasks = [t \in {} |-> NONE]
  /\ files = [t \in {} |-> <<>>]
  /\ nextId = 1
  /\ slots = [s \in Slots |-> IdleSlot]
  /\ lookup = NoLookup

UseHuggingface == clientOk /\ hfToken

\* `not request.prompt or len(request.prompt.strip()) < 3`
PromptInvalid(p) == p = <<>> \/ Len(Strip(p)) < MinPromptLen

\* ServerResponse reporting a generator error as "error"
ServerResponseErrorStatus(r) ==
  IF r.status = "success"
  THEN Response(200, "success", r.video_url, NONE, r.task_id,
                Str("Video generated successfully"), NONE)
  ELSE Response(200, "error", NONE, NONE, r.task_id,
                Str("Video generation in progress. Check status with task ID."), NONE)

\* main.generate_video: mapping of the generator result (lines 95-107)
ServerResponse(r) ==
  IF r.status = "success"
  THEN Response(200, "success", r.video_url, NONE, r.task_id,
                Str("Video generated successfully"), NONE)
  ELSE Response(200, "processing", NONE, NONE, r.task_id,
                Str("Video generation in progress. Check status with task ID."), NONE)

\* api/index.generate_video: mapping of the serverless result (153-165)
ServerlessResponse(r) ==
  IF r.status = "success"
  THEN Response(200, "success", NONE, r.video_data, r.task_id,
                Str("Video generated successfully (serverless)"), NONE)
  ELSE Response(200, "error", NONE, NONE, r.task_id, r.message, NONE)

\* HTTPException(500) raised by the handlers' catch-all for exception text e
InternalError(e) == HTTPError(500, Str("Video generation failed: ") \o e)

\* The validation HTTPException(400) is raised inside the handler's
\* try-block, so the `except Exception` clause turns it into a 500.
RejectExc == HTTPExcStr("400", PromptTooShort)

RejectResponse == InternalError(RejectExc)

Finish(s, gres, resp) ==
  [slots[s] EXCEPT !.pc = "done", !.gres = gres, !.resp = resp]

FinishWith(s, pay, gres, resp) ==
  [slots[s] EXCEPT !.pc = "done", !.pay = pay, !.gres = gres, !.resp = resp]

\* Requests are numbered in arrival order: request s is received after
\* requests 1..s-1 (the slots are interchangeable, so this loses no
\* interleaving of the coroutines once started).
Arrives(s) == \A r \in Slots : r < s => slots[r].pc # "idle"

\* ------------------------------------------------------ handler: validate
\* Either variant's handler rejects the prompt before any generation.
Reject(s, p) ==
  /\ slots[s].pc = "idle"
  /\ Arrives(s)
  /\ PromptInvalid(p)
  /\ slots' = [slots EXCEPT ![s] = [@ EXCEPT !.pc = "done", !.prompt = p,
                                  !.exc = RejectExc, !.resp = RejectResponse]]
  /\ UNCHANGED <<deployment, hfToken, clientOk, tasks, files, nextId>>
  /\ lookup' = NoLookup

\* ---------------------------------- persistent server: generate_video
\* StartHuggingface with a task id that is not fresh (a reused uuid)
StartHuggingfaceStaleId(s, p) ==
  /\ deployment = "server"
  /\ slots[s].pc = "idle"
  /\ Arrives(s)
  /\ ~PromptInvalid(p)
  /\ UseHuggingface
  /\ nextId' = nextId
  /\ tasks' = (nextId :> TaskRecord("processing", "huggingface", p, NONE, NONE)) @@ tasks
  /\ slots' = [slots EXCEPT ![s] = [@ EXCEPT !.pc = "hf_call",
                                             !.prompt = p, !.id = nextId]]
  /\ UNCHANGED <<deployment, hfToken, clientOk, files>>
  /\ lookup' = NoLookup

\* StartHuggingface that retries a failed task of the same prompt under
\* its old id instead of allocating a new one
StartHuggingfaceRetry(s, p) ==
  /\ deployment = "server"
  /\ slots[s].pc = "idle"
  /\ Arrives(s)
  /\ ~PromptInvalid(p)
  /\ UseHuggingface
  /\ LET old == {t \in DOMAIN tasks : tasks[t].prompt = p /\ tasks[t].status = "failed"}
         id  == IF old # {} THEN CHOOSE t \in old : TRUE ELSE nextId
     IN /\ nextId' = IF old # {} THEN nextId ELSE nextId + 1
        /\ tasks' = (id :> TaskRecord("processing", "huggingface", p, NONE, NONE)) @@ tasks
        /\ slots' = [slots EXCEPT ![s] = [@ EXCEPT !.pc = "hf_call",
                                                   !.prompt = p, !.id = id]]
  /\ UNCHANGED <<deployment, hfToken, clientOk, files>>
  /\ lookup' = NoLookup

\* main.generate_video -> VideoGenerator.generate_video ->
\* _generate_with_huggingface up to the awaited text_to_video call.
StartHuggingface(s, p) ==
  /\ deployment = "server"
  /\ slots[s].pc = "idle"
  /\ Arrives(s)
  /\ ~PromptInvalid(p)
  /\ UseHuggingface
  /\ nextId' = nextId + 1
  /\ tasks' = (nextId :> TaskRecord("processing", "huggingface", p, NONE, NONE)) @@ tasks
  /\ slots' = [slots EXCEPT ![s] = [@ EXCEPT !.pc = "hf_call",
                                             !.prompt = p, !.id = nextId]]
  /\ UNCHANGED <<deployment, hfToken, clientOk, files>>
  /\ lookup' = NoLookup

\* main.generate_video -> VideoGenerator.generate_video ->
\* _mock_generation up to `await asyncio.sleep(3)`.
\* StartMock with a task id that is not fresh (a reused uuid)
StartMockStaleId(s, p) ==
  /\ deployment = "server"
  /\ slots[s].pc = "idle"
  /\ Arrives(s)
  /\ ~PromptInvalid(p)
  /\ ~UseHuggingface
  /\ nextId' = nextId
  /\ slots' = [slots EXCEPT ![s] = [@ EXCEPT !.pc = "mock_sleep",
                                             !.prompt = p, !.id = nextId]]
  /\ UNCHANGED <<deployment, hfToken, clientOk, tasks, files>>
  /\ lookup' = NoLookup

StartMock(s, p) ==
  /\ deployment = "server"
  /\ slots[s].pc = "idle"
  /\ Arrives(s)
  /\ ~PromptInvalid(p)
  /\ ~UseHuggingface
  /\ nextId' = nextId + 1
  /\ slots' = [slots EXCEPT ![s] = [@ EXCEPT !.pc = "mock_sleep",
                                             !.prompt = p, !.id = nextId]]
  /\ UNCHANGED <<deployment, hfToken, clientOk, tasks, files>>
  /\ lookup' = NoLookup

\* MockWake that never stores the task record
MockWakeNoStore(s) ==
  /\ slots[s].pc = "mock_sleep"
  /\ LET id == slots[s].id
         r  == GenResult("success", MockVideoUrl, NONE, id,
                  Str("Mock video generated (add HF_TOKEN for real generation)"))
     IN /\ tasks' = tasks
        /\ slots' = [slots EXCEPT ![s] = Finish(s, r, ServerResponse(r))]
  /\ UNCHANGED <<deployment, hfToken, clientOk, files, nextId>>
  /\ lookup' = NoLookup

\* _mock_generation after the sleep, and main.generate_video's mapping.
MockWake(s) ==
  /\ slots[s].pc = "mock_sleep"
  /\ LET id == slots[s].id
         r  == GenResult("success", MockVideoUrl, NONE, id,
                  Str("Mock video generated (add HF_TOKEN for real generation)"))
     IN /\ tasks' = (id :> TaskRecord("completed", "mock", slots[s].prompt,
                                      MockVideoUrl, NONE)) @@ tasks
        /\ slots' = [slots EXCEPT ![s] = Finish(s, r, ServerResponse(r))]
  /\ UNCHANGED <<deployment, hfToken, clientOk, files, nextId>>
  /\ lookup' = NoLookup

\* HfErrorMessage that only recognises num_frames
HfErrorMessageFramesOnly(msg) ==
  IF Contains(Lower(msg), Str("num_frames"))
  THEN ModelLimitPrefix \o msg
  ELSE msg

\* the `except Exception as e` clause of _generate_with_huggingface
HfErrorMessage(msg) ==
  LET low == Lower(msg)   \* error_message.lower(), the same at both tests
  IN IF Contains(low, Str("num_frames")) \/ Contains(low, Str("duration"))
     THEN ModelLimitPrefix \o msg
     ELSE msg

\* HfFail that marks the most recently created task instead of its own
\* (a task id kept on the shared generator object)
HfFailLatest(s, pay, msg) ==
  LET id == slots[s].id
      r  == GenResult("error", NONE, NONE, id,
                      Str("Hugging Face API error: ") \o HfErrorMessage(msg))
  IN /\ tasks' = IF nextId - 1 \in DOMAIN tasks
                 THEN [tasks EXCEPT ![nextId - 1] = [@ EXCEPT !.status = "failed", !.error = msg]]
                 ELSE tasks
     /\ files' = files
     /\ slots' = [slots EXCEPT ![s] = FinishWith(s, pay, r, ServerResponse(r))]

\* HfFail whose record update misses the task (wrong key checked)
HfFailNoUpdate(s, pay, msg) ==
  LET id == slots[s].id
      r  == GenResult("error", NONE, NONE, id,
                      Str("Hugging Face API error: ") \o HfErrorMessage(msg))
  IN /\ tasks' = tasks
     /\ files' = files
     /\ slots' = [slots EXCEPT ![s] = FinishWith(s, pay, r, ServerResponse(r))]

HfFail(s, pay, msg) ==
  LET id == slots[s].id
      r  == GenResult("error", NONE, NONE, id,
                      Str("Hugging Face API error: ") \o HfErrorMessage(msg))
  IN /\ tasks' = IF id \in DOMAIN tasks
                 THEN [tasks EXCEPT ![id] = [@ EXCEPT !.status = "failed", !.error = msg]]
                 ELSE tasks
     /\ files' = files
     /\ slots' = [slots EXCEPT ![s] = FinishWith(s, pay, r, ServerResponse(r))]

\* text_to_video returns (or raises) with payload pay; the rest of
\* _generate_with_huggingface and main.generate_video's mapping.
HuggingfaceReturn(s, pay) ==
  /\ slots[s].pc = "hf_call"
  /\ LET id == slots[s].id
         sv == FileSave(pay)
     IN CASE pay.type = "raises" -> HfFail(s, pay, pay.msg)
        []   ~Truthy(pay) ->
               LET r == GenResult("error", NONE, NONE, id,
                          Str("Video generation failed - no content received"))
               IN /\ tasks' = [tasks EXCEPT ![id] = [@ EXCEPT !.status = "failed",
                                 !.error = Str("No video content received")]]
                  /\ files' = files
                  /\ slots' = [slots EXCEPT ![s] = FinishWith(s, pay, r, ServerResponse(r))]
        []   sv.raised -> HfFail(s, pay, sv.msg)
        []   OTHER ->
               LET r == GenResult("success", VideoUrl(id), NONE, id,
                          Str("Video generated successfully using Hugging Face"))
               IN /\ files' = (id :> sv.data) @@ files
                  /\ tasks' = [tasks EXCEPT ![id] = [@ EXCEPT !.status = "completed",
                                 !.video_url = VideoUrl(id)]]
                  /\ slots' = [slots EXCEPT ![s] = FinishWith(s, pay, r, ServerResponse(r))]
  /\ UNCHANGED <<deployment, hfToken, clientOk, nextId>>
  /\ lookup' = NoLookup

\* ------------------------------- serverless: generate_video_serverless
\* ServerlessNoToken raising instead of returning (caught by the generic
\* `except Exception` of generate_video_serverless)
ServerlessNoTokenRaises(s, p) ==
  /\ deployment = "serverless"
  /\ slots[s].pc = "idle"
  /\ Arrives(s)
  /\ ~PromptInvalid(p)
  /\ ~hfToken
  /\ nextId' = nextId + 1
  /\ LET r == GenResult("error", NONE, NONE, nextId,
                        Str("Generation failed: ") \o Str("HF_TOKEN not configured"))
     IN slots' = [slots EXCEPT ![s] = [@ EXCEPT !.pc = "done",
                          !.prompt = p, !.id = nextId, !.gres = r,
                          !.resp = ServerlessResponse(r)]]
  /\ UNCHANGED <<deployment, hfToken, clientOk, tasks, files>>
  /\ lookup' = NoLookup

\* HF_TOKEN missing: early error return (index.py 49-54) and the mapping.
ServerlessNoToken(s, p) ==
  /\ deployment = "serverless"
  /\ slots[s].pc = "idle"
  /\ Arrives(s)
  /\ ~PromptInvalid(p)
  /\ ~hfToken
  /\ nextId' = nextId + 1
  /\ LET r == GenResult("error", NONE, NONE, nextId, Str("HF_TOKEN not configured"))
     IN slots' = [slots EXCEPT ![s] = [@ EXCEPT !.pc = "done",
                          !.prompt = p, !.id = nextId, !.gres = r,
                          !.resp = ServerlessResponse(r)]]
  /\ UNCHANGED <<deployment, hfToken, clientOk, tasks, files>>
  /\ lookup' = NoLookup

\* str() of the exception InferenceClient(api_key=hf_token) raises: with a
\* non-empty str token the constructor raises only in huggingface_hub
\* releases whose __init__ has no api_key parameter
ClientInitMsg == Str("InferenceClient.__init__() got an unexpected keyword argument 'api_key'")

\* the client constructor raises (index.py:59), caught at index.py:121
ServerlessClientFails(s, p) ==
  /\ deployment = "serverless"
  /\ slots[s].pc = "idle"
  /\ Arrives(s)
  /\ ~PromptInvalid(p)
  /\ hfToken
  /\ ~clientOk
  /\ nextId' = nextId + 1
  /\ LET r == GenResult("error", NONE, NONE, nextId, Str("Generation failed: ") \o ClientInitMsg)
     IN slots' = [slots EXCEPT ![s] = [@ EXCEPT !.pc = "done",
                          !.prompt = p, !.id = nextId, !.gres = r,
                          !.resp = ServerlessResponse(r)]]
  /\ UNCHANGED <<deployment, hfToken, clientOk, tasks, files>>
  /\ lookup' = NoLookup

\* up to `await asyncio.wait_for(..., timeout=240)`
StartServerless(s, p) ==
  /\ deployment = "serverless"
  /\ slots[s].pc = "idle"
  /\ Arrives(s)
  /\ ~PromptInvalid(p)
  /\ hfToken
  /\ clientOk
  /\ nextId' = nextId + 1
  /\ slots' = [slots EXCEPT ![s] = [@ EXCEPT !.pc = "sl_call",
                                             !.prompt = p, !.id = nextId, !.elapsed = 0]]
  /\ UNCHANGED <<deployment, hfToken, clientOk, tasks, files>>
  /\ lookup' = NoLookup

\* time passes while wait_for is pending
ServerlessTick(s) ==
  /\ slots[s].pc = "sl_call"
  /\ slots[s].elapsed < TimeoutSecs
  /\ slots' = [slots EXCEPT ![s].elapsed =
                 IF @ + TickSecs > TimeoutSecs THEN TimeoutSecs ELSE @ + TickSecs]
  /\ UNCHANGED <<deployment, hfToken, clientOk, tasks, files, nextId>>
  /\ lookup' = NoLookup

\* the provider call returns (or raises) within the timeout (index.py 73-127);
\* asyncio.TimeoutError is the builtin TimeoutError (Python 3.11+), so an
\* exception of that class raised by text_to_video is caught at line 73
ServerlessReturn(s, pay) ==
  /\ slots[s].pc = "sl_call"
  /\ slots[s].elapsed <= TimeoutSecs
  /\ LET id == slots[s].id
         vd == ServerlessData(pay)
         r  == CASE pay.type = "raises" /\ pay.excClass = "TimeoutError" ->
                      GenResult("error", NONE, NONE, id, TimedOutMsg)
               []   pay.type = "raises" ->
                      GenResult("error", NONE, NONE, id, Str("Generation failed: ") \o pay.msg)
               []   ~Truthy(pay) ->
                      GenResult("error", NONE, NONE, id, Str("No result from AI model"))
               []   ~vd.found \/ vd.data = <<>> ->
                      GenResult("error", NONE, NONE, id,
                                Str("No video content received from AI model"))
               []   OTHER ->
                      GenResult("success", NONE, B64Encode(vd.data), id,
                                Str("Video generated successfully"))
     IN slots' = [slots EXCEPT ![s] = FinishWith(s, pay, r, ServerlessResponse(r))]
  /\ UNCHANGED <<deployment, hfToken, clientOk, tasks, files, nextId>>
  /\ lookup' = NoLookup

\* ServerlessTimeout whose TimeoutError misses the `except asyncio.TimeoutError`
\* clause and reaches the generic handler (str(TimeoutError()) is empty)
ServerlessTimeoutGeneric(s) ==
  /\ slots[s].pc = "sl_call"
  /\ slots[s].elapsed = TimeoutSecs
  /\ LET r == GenResult("error", NONE, NONE, slots[s].id, Str("Generation failed: "))
     IN slots' = [slots EXCEPT ![s] = Finish(s, r, ServerlessResponse(r))]
  /\ UNCHANGED <<deployment, hfToken, clientOk, tasks, files, nextId>>
  /\ lookup' = NoLookup

\* wait_for raises asyncio.TimeoutError at 240 s (index.py 73-78)
ServerlessTimeout(s) ==
  /\ slots[s].pc = "sl_call"
  /\ slots[s].elapsed = TimeoutSecs
  /\ LET r == GenResult("error", NONE, NONE, slots[s].id, TimedOutMsg)
     IN slots' = [slots EXCEPT ![s] = Finish(s, r, ServerlessResponse(r))]
  /\ UNCHANGED <<deployment, hfToken, clientOk, tasks, files, nextId>>
  /\ lookup' = NoLookup

\* -------------------------------------------------------- status lookup
\* VideoGenerator.get_generation_status
StatusProjection(t) ==
  IF t \notin DOMAIN tasks
  THEN GenResult("error", NONE, NONE, 0, Str("Task not found"))
  ELSE LET ti == tasks[t] IN
       CASE ti.status = "completed" ->
              GenResult("success", ti.video_url, NONE, t, Str("Video generation completed"))
       []   ti.status = "processing" ->
              GenResult("processing", NONE, NONE, t, Str("Video is still being generated..."))
       []   ti.status = "failed" ->
              GenResult("error", NONE, NONE, t,
                        IF ti.error # NONE THEN ti.error ELSE Str("Video generation failed"))
       []   OTHER -> GenResult(ti.status, NONE, NONE, 0, NONE)

\* GetStatus that registers unknown ids (a setdefault on the table)
GetStatusSetdefault(t) ==
  /\ deployment = "server"
  /\ lookup' = [id |-> t, res |-> StatusProjection(t)]
  /\ tasks' = IF t \in DOMAIN tasks THEN tasks
              ELSE (t :> TaskRecord("processing", "huggingface", <<>>, NONE, NONE)) @@ tasks
  /\ UNCHANGED <<deployment, hfToken, clientOk, files, nextId, slots>>

\* main.get_video_status (the serverless app has no status route)
GetStatus(t) ==
  /\ deployment = "server"
  /\ lookup' = [id |-> t, res |-> StatusProjection(t)]
  /\ UNCHANGED <<deployment, hfToken, clientOk, tasks, files, nextId, slots>>

Next ==
  \/ \E s \in Slots :
       \/ \E p \in Prompts : Reject(s, p)
       \/ \E p \in Prompts : StartHuggingface(s, p)
       \/ \E p \in Prompts : StartMock(s, p)
       \/ MockWake(s)
       \/ \E pay \in Payloads : HuggingfaceReturn(s, pay)
       \/ \E p \in Prompts : ServerlessNoToken(s, p)
       \/ \E p \in Prompts : ServerlessClientFails(s, p)
       \/ \E p \in Prompts : StartServerless(s, p)
       \/ ServerlessTick(s)
       \/ \E pay \in Payloads : ServerlessReturn(s, pay)
       \/ ServerlessTimeout(s)
  \/ \E t \in LookupIds : GetStatus(t)

Spec == Init /\ [][Next]_vars

\* Event-loop scheduling: a sleeping coroutine is woken, time passes, and
\* wait_for's timer fires. The provider call itself may never return.
LiveSpec == Spec /\ \A s \in Slots : /\ WF_vars(MockWake(s))
                                     /\ WF_vars(ServerlessTick(s))
                                     /\ WF_vars(ServerlessTimeout(s))

\* =================================================================== claims

FourShapes == {"bytes", "content", "read", "path"}

\* C1: for both variants, a request whose prompt is empty or trims to fewer
\* than 3 characters fails with a client (400) error and creates no task.
C1_InvalidPromptClientError ==
  \A s \in Slots :
    (slots[s].pc = "done" /\ PromptInvalid(slots[s].prompt)) =>
      /\ slots[s].resp.code = 400
      /\ slots[s].id = 0

\* C2: a task's status only moves processing -> completed or
\* processing -> failed; a completed or failed record never changes again.
C2_MonotoneStatus ==
  [][\A t \in DOMAIN tasks :
       /\ t \in DOMAIN tasks'
       /\ tasks[t].status \in {"completed", "failed"} => tasks'[t] = tasks[t]
       /\ tasks[t].status = "processing" =>
            tasks'[t].status \in {"processing", "completed", "failed"}]_vars

C2_Witness ==
  \E t1, t2 \in DOMAIN tasks :
    /\ tasks[t1].provider = "huggingface" /\ tasks[t1].status = "completed"
    /\ tasks[t2].provider = "huggingface" /\ tasks[t2].status = "failed"

\* C3 (as stated): every successful submission, in either variant, returns
\* a fresh id that a status lookup finds in the task table.
C3_SubmissionResolvable ==
  \A s \in Slots :
    (slots[s].pc = "done" /\ slots[s].resp.code = 200 /\ slots[s].resp.status = "success") =>
      /\ slots[s].id \in DOMAIN tasks
      /\ \A r \in Slots \ {s} : slots[r].id # slots[s].id

\* C3 (amended): in either variant every submission gets an id different
\* from every other id returned; in the persistent-server variant a
\* successful submission's id is found by a status lookup right away.
C3_UniqueIdsServerResolvable ==
  \A s \in Slots :
    /\ slots[s].id # 0 => \A r \in Slots \ {s} : slots[r].id # slots[s].id
    /\ (deployment = "server" /\ slots[s].pc = "done" /\ slots[s].resp.code = 200
        /\ slots[s].resp.status = "success") =>
         /\ slots[s].id \in DOMAIN tasks
         /\ StatusProjection(slots[s].id).status = "success"

C3_Witness ==
  /\ deployment = "server"
  /\ \E s \in Slots : /\ slots[s].pc = "done" /\ slots[s].resp.status = "success"
                      /\ lookup.id = slots[s].id /\ lookup.res.status = "success"
  /\ \E s \in Slots : slots[s].pc # "done" /\ slots[s].id # 0

\* C4: a status lookup leaves the task table (and every other state) as it
\* was, and for an id absent from the table it returns "Task not found".
C4_StatusLookupPure ==
  /\ [][lookup' # NoLookup => /\ tasks' = tasks /\ files' = files
                              /\ slots' = slots /\ nextId' = nextId]_vars
  /\ [](lookup.id # 0 /\ lookup.id \notin DOMAIN tasks =>
          /\ lookup.res.status = "error"
          /\ lookup.res.message = Str("Task not found"))

C4_Witness ==
  /\ lookup.id # 0 /\ lookup.id \notin DOMAIN tasks
  /\ DOMAIN tasks # {}

\* C5: in mock mode every accepted submission terminates, completed, with
\* the placeholder URL and a fresh id; a later lookup of the id returns
\* success with the same URL.
C5_MockAlwaysCompletes ==
  /\ [](\A s \in Slots :
          (deployment = "server" /\ ~UseHuggingface /\ slots[s].pc = "done"
           /\ ~PromptInvalid(slots[s].prompt)) =>
            /\ slots[s].gres.status = "success"
            /\ slots[s].gres.video_url = MockVideoUrl
            /\ slots[s].gres.task_id = slots[s].id
            /\ slots[s].resp.status = "success"
            /\ \A r \in Slots \ {s} : slots[r].id # slots[s].id
            /\ slots[s].id \in DOMAIN tasks
            /\ tasks[slots[s].id].status = "completed"
            /\ StatusProjection(slots[s].id).status = "success"
            /\ StatusProjection(slots[s].id).video_url = MockVideoUrl
            /\ lookup.id = slots[s].id =>
                 lookup.res.status = "success" /\ lookup.res.video_url = MockVideoUrl)
  /\ \A s \in Slots : (slots[s].pc = "mock_sleep") ~> (slots[s].pc = "done")

C5_Witness ==
  \E s \in Slots :
    /\ deployment = "server" /\ ~UseHuggingface
    /\ slots[s].pc = "done" /\ ~PromptInvalid(slots[s].prompt)
    /\ lookup.id = slots[s].id

\* C6 (as stated): with no credential configured, no accepted submission
\* in either variant returns an error result.
C6_NoCredentialNotError ==
  \A s \in Slots :
    (slots[s].pc = "done" /\ ~hfToken /\ ~PromptInvalid(slots[s].prompt)) =>
      slots[s].gres.status # "error"

\* C6 (amended): with no credential, the persistent server falls back to
\* mock generation, while the serverless variant returns the error result
\* "HF_TOKEN not configured".
C6_NoCredentialFallback ==
  \A s \in Slots :
    (slots[s].pc = "done" /\ ~hfToken /\ ~PromptInvalid(slots[s].prompt)) =>
      /\ deployment = "server" =>
           slots[s].gres.status = "success" /\ slots[s].gres.video_url = MockVideoUrl
      /\ deployment = "serverless" =>
           /\ slots[s].gres.status = "error"
           /\ slots[s].gres.message = Str("HF_TOKEN not configured")

C6_Witness ==
  \E s \in Slots :
    /\ deployment = "serverless" /\ ~hfToken
    /\ slots[s].pc = "done" /\ ~PromptInvalid(slots[s].prompt)

\* C7: a success result maps to a success response carrying the video URL
\* (server) or inline data (serverless) and the task id; an error result
\* maps to "processing" (server) or "error" (serverless); an exception
\* reaching the handler maps to a 500 error containing its text.
C7_ResponseMapping ==
  \A s \in Slots :
    slots[s].pc = "done" =>
      LET g == slots[s].gres
          r == slots[s].resp
      IN /\ slots[s].exc # NONE => r.code = 500 /\ Contains(r.detail, slots[s].exc)
         /\ slots[s].exc = NONE => r.code = 200
         /\ (r.code = 200 /\ g.status = "success") =>
              /\ r.status = "success"
              /\ r.task_id = g.task_id /\ g.task_id = slots[s].id
              /\ deployment = "server" => r.video_url = g.video_url /\ r.video_url # NONE
              /\ deployment = "serverless" => r.video_data = g.video_data /\ r.video_data # NONE
         /\ (r.code = 200 /\ g.status = "error") =>
              /\ r.status = IF deployment = "server" THEN "processing" ELSE "error"
              /\ r.task_id = g.task_id

C7_Witness ==
  \E s1, s2 \in Slots :
    /\ slots[s1].pc = "done" /\ slots[s1].gres.status = "error"
    /\ slots[s1].resp.status = "processing"
    /\ slots[s2].pc = "done" /\ slots[s2].resp.code = 500

\* the bytes a payload of one of the four shapes stands for: the bytes
\* object itself, its .content, what its read() yields, the file at its path
Underlying(p) == CASE p.shape = "bytes"   -> p.bytes
                 []   p.shape = "content" -> p.content
                 []   p.shape = "read"    -> p.read
                 []   p.shape = "path"    -> Disk[p.path]

\* C8: payloads of the four shapes carrying the same non-empty bytes give
\* the same stored artifact (file content, or base64 string) and success.
C8_PayloadShapesAgree ==
  \A s1, s2 \in Slots :
    LET a == slots[s1]
        b == slots[s2]
    IN (/\ a.pc = "done" /\ b.pc = "done"
        /\ a.pay.shape \in FourShapes /\ b.pay.shape \in FourShapes
        /\ Underlying(a.pay) = Underlying(b.pay) /\ Underlying(a.pay) # <<>>) =>
         /\ a.gres.status = "success" /\ b.gres.status = "success"
         /\ deployment = "server" =>
              /\ a.id \in DOMAIN files /\ b.id \in DOMAIN files
              /\ files[a.id] = files[b.id]
         /\ deployment = "serverless" => a.gres.video_data = b.gres.video_data

C8_Witness ==
  \E s1, s2 \in Slots :
    /\ deployment = "server"
    /\ slots[s1].pc = "done" /\ slots[s2].pc = "done"
    /\ slots[s1].pay.shape = "read" /\ slots[s2].pay.shape = "path"
    /\ Underlying(slots[s1].pay) = Underlying(slots[s2].pay)
    /\ Underlying(slots[s1].pay) # <<>>

EmptyPayload(p) ==
  /\ p.type \notin {"pending", "raises"}
  /\ ~Truthy(p) \/ ~ServerlessData(p).found \/ ServerlessData(p).data = <<>>

C10_EmptyPayloadFails ==
  \A s \in Slots :
    (slots[s].pc = "done" /\ EmptyPayload(slots[s].pay)) =>
      /\ slots[s].gres.status = "error"
      /\ slots[s].id \in DOMAIN tasks => tasks[slots[s].id].status = "failed"


\* text of the exception raised by the provider call or by the handling of
\* its payload (shutil.copy of a missing path), NONE when none is raised
\* (the serverless variant tests os.path.exists and never copies)
RaisedMsg(p) == CASE p.type = "raises" -> p.msg
                []   p.shape = "pathMissing" /\ deployment = "server" -> FileNotFoundMsg(p.path)
                []   OTHER -> NONE

ModelLimitMsgs == { Str("NUM_FRAMES"), FileNotFoundMsg(Str("/nonexistent/it's duration.mp4")) }

C12_FailedStaysFailed ==
  [][/\ \A t \in DOMAIN tasks :
          tasks[t].status = "failed" => t \in DOMAIN tasks' /\ tasks'[t] = tasks[t]
     /\ \A s \in Slots :
          (slots[s].pc = "idle" /\ slots'[s].pc # "idle" /\ slots'[s].id # 0) =>
            /\ slots'[s].id \notin DOMAIN tasks
            /\ \A r \in Slots : slots[r].id # slots'[s].id]_vars

C12_Witness ==
  \E s1, s2 \in Slots :
    /\ deployment = "server" /\ s1 < s2
    /\ slots[s1].id \in DOMAIN tasks /\ slots[s2].id \in DOMAIN tasks
    /\ tasks[slots[s1].id].status = "failed"
    /\ tasks[slots[s2].id].status # "processing"
    /\ slots[s1].prompt = slots[s2].prompt


\* C13: under any interleaving, a record of the task table is inserted or
\* changed only by the submission whose task id it is, and every record
\* has status processing, completed or failed, a completed one carrying a
\* video_url, so a lookup yields one of the three projections.
C13_OwnerWritesOnly ==
  /\ [][\A t \in DOMAIN tasks' :
          (t \notin DOMAIN tasks \/ tasks'[t] # tasks[t]) =>
            \E s \in Slots : slots'[s] # slots[s] /\ slots'[s].id = t]_vars
  /\ [](\A t \in DOMAIN tasks :
          /\ tasks[t].status \in {"processing", "completed", "failed"}
          /\ tasks[t].status = "completed" => tasks[t].video_url # NONE
          /\ StatusProjection(t).status \in {"success", "processing", "error"})

C13_Witness ==
  \E s1, s2 \in Slots :
    /\ s1 # s2
    /\ slots[s1].pc = "hf_call" /\ slots[s2].pc = "done"
    /\ slots[s2].id \in DOMAIN tasks /\ tasks[slots[s2].id].status = "failed"


\* The provider call eventually returns or raises (run_in_executor has no
\* timeout in the persistent server, so nothing else ends the await).
HfLiveSpec == Spec /\ \A s \in Slots : WF_vars(\E pay \in Payloads : HuggingfaceReturn(s, pay))

\* C14: in the persistent-server provider branch, every task that enters
\* processing eventually becomes completed or failed when the provider
\* call returns or raises (a failing save of the video file included), and
\* no submission returns leaving its task in processing.
C14_ProcessingTerminates ==
  /\ [](\A s \in Slots :
          (slots[s].pc = "done" /\ slots[s].id \in DOMAIN tasks) =>
            tasks[slots[s].id].status # "processing")
  /\ \A t \in TaskIds :
       (t \in DOMAIN tasks /\ tasks[t].status = "processing")
         ~> (t \in DOMAIN tasks /\ tasks[t].status \in {"completed", "failed"})

C14_Witness ==
  \E s \in Slots :
    /\ deployment = "server" /\ slots[s].pc = "done"
    /\ slots[s].pay.shape = "pathMissing"
    /\ slots[s].id \in DOMAIN tasks /\ tasks[slots[s].id].status = "failed"

====
